---------------------------- MODULE Spec2Model ----------------------------
(***************************************************************************)
(* Verification model of the CoPilot-Trader "tick" backend agents:         *)
(*   - NewsFetchAgent.process and its collectors' rate-limit trackers      *)
(*   - LLMSentimentAgent.process with the semantic cache                   *)
(*   - SentimentAggregator.process                                         *)
(*   - the /visualize pipeline router                                      *)
(*   - SupportResistanceAgent.process with its result cache                *)
(* Each subsystem has its own specification (SpecNews, SpecLLM, ...) over  *)
(* the shared variable tuple; a specification leaves the other             *)
(* subsystems' variables unchanged.                                        *)
(***************************************************************************)
EXTENDS Integers, Sequences, FiniteSets, TLC

VARIABLES
    \* ---- NewsFetchAgent (agents/news_fetch_agent/agent.py) ----
    nf_initialized,   \* self.initialized
    nf_collectors,    \* self.collectors, in construction order
    nf_pc,            \* position of the running process() call
    nf_idx,           \* index of the collector the current for-loop is at
    nf_limit,         \* params["limit"]
    nf_min_relevance, \* params["min_relevance"], in tenths
    nf_all,           \* all_articles
    nf_additional,    \* additional_articles of the current expansion round
    nf_sources,       \* sources_used
    nf_usage,         \* api_usage_info (sources of the entries appended)
    nf_expansion,     \* expansion_count
    nf_result,        \* the dictionary process() returned
    nf_calls,         \* observer: fetch_news calls per collector in this request
    nf_raised,        \* observer: collectors whose fetch_news raised in this request
    nf_returned,      \* observer: articles handed back by fetch_news calls that did not raise
    \* ---- LLMSentimentAgent (agents/llm_sentiment_agent) ----
    llm_backend_ok,   \* environment the agent runs in: sentence-transformers can be loaded
    llm_initialized,  \* self.initialized
    llm_enable_cache, \* CacheManager.enable_cache
    llm_model_loaded, \* SemanticCache._model is not None
    llm_store,        \* VectorStore._embeddings/_metadata, in insertion order
    llm_pc,           \* position of the running process() call
    llm_symbol,       \* symbol argument
    llm_articles,     \* params["articles"]
    llm_use_cache,    \* params["use_cache"]
    llm_min_conf,     \* min_confidence of the request's time_horizon
    llm_idx,          \* index of the article the for-loop is at
    llm_scores,       \* sentiment_scores, the local list being built
    llm_result,       \* the dictionary process() returned
    llm_invocations,  \* observer: process() calls started
    llm_failure,      \* observer: what made the invocation fail ("none", "llm", "backend")
    llm_last,         \* observer: the dictionary the last analyze_sentiment call returned
    llm_client_calls, \* observer: llm_client.analyze_sentiment calls made
    \* ---- SentimentAggregator (agents/sentiment_aggregator) ----
    agg_initialized,  \* self.initialized
    agg_half_life,    \* time_aggregator.half_life_hours, in minutes
    agg_max_age,      \* time_aggregator.max_age_hours, in minutes
    agg_params,       \* params of the last process() call
    agg_result,       \* the dictionary process() returned
    agg_requests,     \* observer: process() calls made
    \* ---- /visualize pipeline (api/routers/news_pipeline_visualizer.py) ----
    pipe_pc,          \* position of the running visualize_pipeline() call
    pipe_symbol,      \* request.symbol
    pipe_horizon,     \* request.time_horizon, normalised
    pipe_steps,       \* response["steps"]: agent and status of each step
    pipe_status,      \* response["status"]
    pipe_articles,    \* articles, the local list step 1 extracts
    pipe_scores,      \* sentiment_scores, the local list step 2 extracts
    pipe_final,       \* response["final_result"]
    pipe_requests,    \* observer: requests started
    \* ---- SupportResistanceAgent (agents/support_resistance_agent/agent.py) ----
    sr_initialized,   \* self.initialized
    sr_cache,         \* self._cache, in insertion order
    sr_timestamps,    \* self._cache_timestamps, in insertion order
    sr_now,           \* the clock, in ticks of SRTickMinutes
    sr_result,        \* the dictionary the last process() call returned
    sr_hit,           \* observer: the last process() call was served from the cache
    sr_used,          \* observer: the cached keys, least recently used by process() first
    sr_params,        \* observer: min_strength and max_levels of the last process() call
    sr_requests,      \* observer: process() calls made
    \* ---- detect_levels_batch with use_parallel: the pool's worker threads ----
    srb_mode,         \* "none" before the batch starts, then "parallel" or "sequential"
    srb_next,         \* index of the next symbol the executor hands out
    srb_results,      \* results, by index of the symbol
    srw_pc,           \* per worker: position inside process() / _cache_result
    srw_task,         \* per worker: index of the symbol it is processing
    srw_result,       \* per worker: result, the local of process()
    srw_oldest,       \* per worker: oldest_key, the local of _cache_result
    \* ---- collectors' local rate-limit trackers (news_fetch_agent/collectors) ----
    tr_now,           \* the clock (datetime.now(timezone.utc)), in seconds
    fh_calls_made,    \* FinnhubCollector._calls_made
    fh_last_reset_time, \* FinnhubCollector._last_reset_time (None or seconds)
    na_calls_made,    \* NewsAPICollector._calls_made
    na_last_reset_date, \* NewsAPICollector._last_reset_date (None or day number)
    av_calls_made_minute, \* AlphaVantageCollector._calls_made_minute
    av_calls_made_day,    \* AlphaVantageCollector._calls_made_day
    av_last_minute_reset, \* AlphaVantageCollector._last_minute_reset
    av_last_day_reset,    \* AlphaVantageCollector._last_day_reset
    tr_usage,         \* per collector: what the last get_api_usage_info() returned
    tr_prev,          \* observer: per collector, the return before that one
    tr_calls,         \* observer: fetch_news / get_api_usage_info calls made
    tr_ticks,         \* observer: clock advances so far
    \* ---- concurrent requests inside FinnhubCollector.fetch_news ----
    rc_pc,            \* per request: position inside lines 124-136
    rc_now,           \* per request: now, the local
    rc_tmp,           \* per request: the value of _calls_made loaded by +=
    rc_log,           \* observer: now of every fetch that finished its tracking
    rc_started,       \* observer: fetches started
    \* ---- retry_with_backoff around a collector's HTTP request (utils/retry.py) ----
    rt_pc,            \* position of the wrapper: "idle", "try" or "done"
    rt_cfg,           \* the decorator's arguments
    rt_attempt,       \* attempt, the loop variable
    rt_delay,         \* delay
    rt_sleeps,        \* observer: the time.sleep() arguments so far, in seconds
    rt_tries,         \* observer: how each call of the wrapped function ended
    rt_outcome,       \* observer: how the wrapper ended ("none", "returned", "raised")
    \* ---- the levels endpoints (api/routers/support_resistance_agent.py) ----
    api_pc,           \* position of the handler: "idle" or "handle"
    api_request,      \* the request: endpoint and timeframe
    api_status,       \* HTTP status of the last response, 0 before the first
    api_count,        \* observer: requests received
    \* ---- DuplicateFilter on its own (news_fetch_agent/filters/duplicate_filter.py) ----
    df_pc,            \* "new" before the filter is constructed, then "ready"
    df_prefer_source, \* prefer_source, "" when the configuration has none
    df_in,            \* articles, the argument of the last remove_duplicates call
    df_out,           \* what that call returned
    df_again,         \* observer: the last call was given the previous call's output
    \* ---- StrengthCalculator breakout probabilities (support_resistance_agent/scoring/strength_calculator.py) ----
    bp_pc,            \* "idle", or "done" after calculate_breakout_probabilities
    bp_levels,        \* levels, each with breakout_probability once done
    bp_current_price, \* current_price of the call
    bp_direction      \* observer: direction_factor of each level, in tenths

newsVars == <<nf_initialized, nf_collectors, nf_pc, nf_idx, nf_limit,
              nf_min_relevance, nf_all, nf_additional, nf_sources, nf_usage,
              nf_expansion, nf_result, nf_calls, nf_raised, nf_returned>>

llmVars == <<llm_backend_ok, llm_initialized, llm_enable_cache,
             llm_model_loaded, llm_store, llm_pc, llm_symbol, llm_articles,
             llm_use_cache, llm_min_conf, llm_idx, llm_scores, llm_result,
             llm_invocations, llm_failure, llm_last, llm_client_calls>>

aggVars == <<agg_initialized, agg_half_life, agg_max_age, agg_params,
             agg_result, agg_requests>>

pipeVars == <<pipe_pc, pipe_symbol, pipe_horizon, pipe_steps, pipe_status, pipe_articles,
              pipe_scores, pipe_final, pipe_requests>>

srVars == <<sr_initialized, sr_cache, sr_timestamps, sr_now, sr_result,
            sr_hit, sr_used, sr_params, sr_requests>>

srbVars == <<srb_mode, srb_next, srb_results, srw_pc, srw_task, srw_result,
             srw_oldest>>

trVars == <<tr_now, fh_calls_made, fh_last_reset_time, na_calls_made,
            na_last_reset_date, av_calls_made_minute, av_calls_made_day,
            av_last_minute_reset, av_last_day_reset, tr_usage, tr_prev,
            tr_calls, tr_ticks>>

rcVars == <<rc_pc, rc_now, rc_tmp, rc_log, rc_started>>

rtVars == <<rt_pc, rt_cfg, rt_attempt, rt_delay, rt_sleeps, rt_tries, rt_outcome>>

apiVars == <<api_pc, api_request, api_status, api_count>>

dfVars == <<df_pc, df_prefer_source, df_in, df_out, df_again>>

bpVars == <<bp_pc, bp_levels, bp_current_price, bp_direction>>

vars == <<newsVars, llmVars, aggVars, pipeVars, srVars, srbVars, trVars, rcVars, rtVars, apiVars, dfVars, bpVars>>

nonNewsVars == <<llmVars, aggVars, pipeVars, srVars, srbVars, trVars, rcVars, rtVars, apiVars, dfVars, bpVars>>

nonLLMVars == <<newsVars, aggVars, pipeVars, srVars, srbVars, trVars, rcVars, rtVars, apiVars, dfVars, bpVars>>

nonAggVars == <<newsVars, llmVars, pipeVars, srVars, srbVars, trVars, rcVars, rtVars, apiVars, dfVars, bpVars>>

nonPipeVars == <<newsVars, llmVars, aggVars, srVars, srbVars, trVars, rcVars, rtVars, apiVars, dfVars, bpVars>>

nonSRVars == <<newsVars, llmVars, aggVars, pipeVars, trVars, rcVars, rtVars, apiVars, dfVars, bpVars>>

nonTrVars == <<newsVars, llmVars, aggVars, pipeVars, srVars, srbVars, rtVars, apiVars, dfVars, bpVars>>

nonRtVars == <<newsVars, llmVars, aggVars, pipeVars, srVars, srbVars, trVars, rcVars, apiVars, dfVars, bpVars>>

nonApiVars == <<newsVars, llmVars, aggVars, pipeVars, srVars, srbVars, trVars, rcVars, rtVars, dfVars, bpVars>>

nonDfVars == <<newsVars, llmVars, aggVars, pipeVars, srVars, srbVars, trVars, rcVars, rtVars, apiVars, bpVars>>

nonBpVars == <<newsVars, llmVars, aggVars, pipeVars, srVars, srbVars, trVars, rcVars, rtVars, apiVars, dfVars>>

-----------------------------------------------------------------------------
(* Generic helpers *)

Range(s) == {s[i] : i \in 1..Len(s)}

Min2(a, b) == IF a <= b THEN a ELSE b

Max2(a, b) == IF a >= b THEN a ELSE b

Prefix(s, n) == SubSeq(s, 1, Min2(n, Len(s)))

\* Stable insertion of x into a sequence already sorted descending by the
\* record field `field`: x goes after every element whose key is >= its own
\* (Python's sort is stable, also with reverse=True).
RECURSIVE InsertDesc(_, _, _)
InsertDesc(x, s, field) ==
    IF s = <<>> THEN <<x>>
    ELSE IF Head(s)[field] >= x[field]
           THEN <<Head(s)>> \o InsertDesc(x, Tail(s), field)
           ELSE <<x>> \o s

RECURSIVE StableSortDesc(_, _)
StableSortDesc(s, field) ==
    IF s = <<>> THEN <<>>
    ELSE InsertDesc(s[Len(s)],
                    StableSortDesc(SubSeq(s, 1, Len(s) - 1), field), field)

NoResult == [kind |-> "none"]

-----------------------------------------------------------------------------
(* NewsFetchAgent *)

\* Bounds of the news model.
MaxFeedLen == 1

\* self.max_articles default and the expansion loop's constants.
DefaultMaxArticles == 50
MinArticlesCap == 10
MaxExpansions == 2
DefaultMinRelevanceTenths == 5

\* Normalised articles a collector can return.  title is a position on a line:
\* two titles are similar (SequenceMatcher ratio >= threshold) when they are
\* at most one apart, which keeps similarity reflexive and symmetric but not
\* transitive.  rel is the relevance score RelevanceFilter computes, in tenths;
\* pub orders published_at.  content and summary are empty.
ArticlePool ==
    { [id |-> "u1", url |-> "u1", title |-> 1, rel |-> 8, pub |-> 2],
      [id |-> "u2", url |-> "u2", title |-> 2, rel |-> 3, pub |-> 1] }

PoolOrder == <<"u1", "u2">>

PoolArticle(i) == CHOOSE a \in ArticlePool : a.id = i

\* The lists a fetch_news call can return: the pool's articles in the
\* provider's order, at most MaxFeedLen of them.
Feeds ==
    { SelectSeq([k \in 1..Len(PoolOrder) |-> PoolArticle(PoolOrder[k])],
                LAMBDA a : a.id \in ids) :
        ids \in {S \in SUBSET {PoolOrder[k] : k \in 1..Len(PoolOrder)} :
                    Cardinality(S) <= MaxFeedLen} }

\* Outcome of one fetch_news call: it raises, or returns a list.
FetchOutcomes == {[raised |-> TRUE, articles |-> <<>>]}
                 \cup {[raised |-> FALSE, articles |-> f] : f \in Feeds}

RealCollectors == <<"Finnhub", "NewsAPI", "Alpha Vantage">>

\* get_api_usage_info of Finnhub and Alpha Vantage computes
\* next_reset.replace(minute=minute + 1), which raises ValueError when the
\* last reset fell in minute 59; NewsAPI's and the mock's cannot raise.
UsageCanRaise(c) == c \in {"Finnhub", "Alpha Vantage"}

\* initialize(): the mock collector when use_mock_data, else one collector per
\* valid key in the fixed order, falling back to the mock when none was added.
CollectorsFor(use_mock, keys) ==
    IF use_mock THEN <<"Mock">>
    ELSE LET cs == SelectSeq(RealCollectors, LAMBDA c : c \in keys)
         IN IF cs = <<>> THEN <<"Mock">> ELSE cs

NFInitialize(use_mock, keys) ==
    /\ nf_pc = "idle"
    /\ ~nf_initialized
    /\ nf_collectors' = CollectorsFor(use_mock, keys)
    /\ nf_initialized' = TRUE
    /\ UNCHANGED <<nf_pc, nf_idx, nf_limit, nf_min_relevance, nf_all,
                   nf_additional, nf_sources, nf_usage, nf_expansion,
                   nf_result, nf_calls, nf_raised, nf_returned>>
    /\ UNCHANGED nonNewsVars

NFErrorNotInitialized ==
    [status |-> "error", message |-> "Agent not initialized. Call initialize() first."]

NFErrorResult ==
    [status |-> "error", message |-> "Error processing news",
     articles |-> <<>>, total_count |-> 0, sources |-> <<>>]

\* process(), lines 145-172: the initialisation guard, the parameters and
\* DateRangeCalculator.calculate, which raises ValueError on an unsupported
\* time_horizon (caught by the outer except).
NFBegin(limit, min_rel, horizon_ok) ==
    /\ nf_pc = "idle"
    /\ nf_limit' = limit
    /\ nf_min_relevance' = min_rel
    /\ nf_all' = <<>>
    /\ nf_additional' = <<>>
    /\ nf_sources' = <<>>
    /\ nf_usage' = <<>>
    /\ nf_expansion' = 0
    /\ nf_idx' = 1
    /\ nf_calls' = [c \in Range(nf_collectors) |-> 0]
    /\ nf_raised' = {}
    /\ nf_returned' = {}
    /\ IF ~nf_initialized
         THEN nf_pc' = "done" /\ nf_result' = NFErrorNotInitialized
       ELSE IF ~horizon_ok
         THEN nf_pc' = "done" /\ nf_result' = NFErrorResult
       ELSE nf_pc' = "fetch" /\ nf_result' = NoResult
    /\ UNCHANGED <<nf_initialized, nf_collectors>>
    /\ UNCHANGED nonNewsVars

\* One iteration of the fan-out loop, lines 174-192.
NFFetchBody(o, usage_ok) ==
    LET c == nf_collectors[nf_idx] IN
    /\ nf_calls' = [nf_calls EXCEPT ![c] = @ + 1]
    /\ IF o.raised
         THEN /\ nf_raised' = nf_raised \cup {c}
              /\ UNCHANGED <<nf_all, nf_sources, nf_returned>>
              \* "Still try to get usage info even if fetch failed"
              /\ nf_usage' = IF usage_ok THEN Append(nf_usage, c) ELSE nf_usage
         ELSE /\ nf_all' = nf_all \o o.articles
              /\ nf_sources' = IF o.articles # <<>> THEN Append(nf_sources, c)
                               ELSE nf_sources
              /\ nf_returned' = nf_returned \cup Range(o.articles)
              /\ nf_usage' = IF usage_ok THEN Append(nf_usage, c) ELSE nf_usage
              /\ UNCHANGED nf_raised

\* Mutant: the fan-out loop without its inner try/except, so a collector's
\* exception reaches the outer handler and fails the request.
NFFetchInitialNoCatch(o, usage_ok) ==
    /\ nf_pc = "fetch"
    /\ nf_idx <= Len(nf_collectors)
    /\ usage_ok \/ UsageCanRaise(nf_collectors[nf_idx])
    /\ NFFetchBody(o, usage_ok)
    /\ IF o.raised
         THEN nf_pc' = "done" /\ nf_idx' = nf_idx /\ nf_result' = NFErrorResult
       ELSE IF nf_idx = Len(nf_collectors)
         THEN nf_pc' = "loop" /\ nf_idx' = 1 /\ nf_result' = nf_result
         ELSE nf_pc' = "fetch" /\ nf_idx' = nf_idx + 1 /\ nf_result' = nf_result
    /\ UNCHANGED <<nf_initialized, nf_collectors, nf_limit, nf_min_relevance,
                   nf_additional, nf_expansion>>
    /\ UNCHANGED nonNewsVars

NFFetchInitial(o, usage_ok) ==
    /\ nf_pc = "fetch"
    /\ nf_idx <= Len(nf_collectors)
    /\ usage_ok \/ UsageCanRaise(nf_collectors[nf_idx])
    /\ NFFetchBody(o, usage_ok)
    /\ IF nf_idx = Len(nf_collectors)
         THEN nf_pc' = "loop" /\ nf_idx' = 1
         ELSE nf_pc' = "fetch" /\ nf_idx' = nf_idx + 1
    /\ UNCHANGED <<nf_initialized, nf_collectors, nf_limit, nf_min_relevance,
                   nf_additional, nf_expansion, nf_result>>
    /\ UNCHANGED nonNewsVars

MinArticlesRequired(limit) == Min2(limit, MinArticlesCap)

\* Mutant: the while condition with the expansion bound off by one.
NeedsExpansionOneMore(n, limit, expansions) ==
    n < MinArticlesRequired(limit) /\ expansions <= MaxExpansions

\* The while condition of line 199.
NeedsExpansion(n, limit, expansions) ==
    n < MinArticlesRequired(limit) /\ expansions < MaxExpansions

\* Line 199-206: test the loop condition; expand the window or leave the loop.
NFLoopCheck ==
    /\ nf_pc = "loop"
    /\ IF NeedsExpansion(Len(nf_all), nf_limit, nf_expansion)
         THEN /\ nf_expansion' = nf_expansion + 1
              /\ nf_additional' = <<>>
              /\ nf_idx' = 1
              /\ nf_pc' = "refetch"
         ELSE /\ nf_pc' = "finish"
              /\ UNCHANGED <<nf_expansion, nf_additional, nf_idx>>
    /\ UNCHANGED <<nf_initialized, nf_collectors, nf_limit, nf_min_relevance,
                   nf_all, nf_sources, nf_usage, nf_result, nf_calls,
                   nf_raised, nf_returned>>
    /\ UNCHANGED nonNewsVars

ArticleKey(a) == IF a.id # "" THEN a.id ELSE a.url

\* Lines 219-225: append the additional articles whose id (or url) is new.
RECURSIVE MergeNew(_, _)
MergeNew(all, additional) ==
    IF additional = <<>> THEN all
    ELSE LET a == Head(additional)
             existing == {ArticleKey(x) : x \in Range(all)}
         IN IF ArticleKey(a) \notin existing
              THEN MergeNew(Append(all, a), Tail(additional))
              ELSE MergeNew(all, Tail(additional))

\* One iteration of the re-fetch loop, lines 210-217; after the last
\* collector the merge of lines 219-229.
NFRefetch(o) ==
    /\ nf_pc = "refetch"
    /\ nf_idx <= Len(nf_collectors)
    /\ LET c == nf_collectors[nf_idx]
           add == IF o.raised THEN nf_additional ELSE nf_additional \o o.articles
       IN /\ nf_calls' = [nf_calls EXCEPT ![c] = @ + 1]
          /\ nf_raised' = IF o.raised THEN nf_raised \cup {c} ELSE nf_raised
          /\ nf_returned' = IF o.raised THEN nf_returned
                            ELSE nf_returned \cup Range(o.articles)
          /\ IF nf_idx = Len(nf_collectors)
               THEN /\ nf_all' = MergeNew(nf_all, add)
                    /\ nf_additional' = <<>>
                    /\ nf_idx' = 1
                    /\ nf_pc' = "loop"
               ELSE /\ nf_additional' = add
                    /\ nf_idx' = nf_idx + 1
                    /\ UNCHANGED <<nf_all, nf_pc>>
    /\ UNCHANGED <<nf_initialized, nf_collectors, nf_limit, nf_min_relevance,
                   nf_sources, nf_usage, nf_expansion, nf_result>>
    /\ UNCHANGED nonNewsVars

\* DuplicateFilter._is_duplicate: equal non-empty urls, or similar titles
\* (content and summary are empty in the pool, so the third test is skipped).
TitleSimilar(t1, t2) == t1 - t2 <= 1 /\ t2 - t1 <= 1

IsDuplicate(a, b) ==
    \/ (a.url # "" /\ b.url # "" /\ a.url = b.url)
    \/ TitleSimilar(a.title, b.title)

\* DuplicateFilter.remove_duplicates with prefer_source unset: keep an article
\* unless it duplicates one already kept.
RECURSIVE RemoveDuplicatesFrom(_, _)
RemoveDuplicatesFrom(unique, rest) ==
    IF rest = <<>> THEN unique
    ELSE LET a == Head(rest)
         IN IF \E j \in 1..Len(unique) : IsDuplicate(a, unique[j])
              THEN RemoveDuplicatesFrom(unique, Tail(rest))
              ELSE RemoveDuplicatesFrom(Append(unique, a), Tail(rest))

RemoveDuplicates(articles) == RemoveDuplicatesFrom(<<>>, articles)

\* Lines 231-240: keep the `limit` most recent when there are more.
ApplyMaxArticles(all, limit) ==
    IF Len(all) > limit THEN Prefix(StableSortDesc(all, "pub"), limit) ELSE all

\* Lines 261-293: score, threshold, de-duplicate, sort by relevance, limit.
FinalArticles(limited, min_rel, limit) ==
    LET filtered == SelectSeq(limited, LAMBDA a : a.rel >= min_rel)
        unique == RemoveDuplicates(filtered)
        sorted == StableSortDesc(unique, "rel")
    IN Prefix(sorted, limit)

\* Mutant: an empty article list reported as a failure.
NFResultEmptyIsError(all, limit, min_rel, sources, usage) ==
    LET limited == ApplyMaxArticles(all, limit)
        final == FinalArticles(limited, min_rel, limit)
    IN IF limited = <<>>
         THEN NFErrorResult
         ELSE [status |-> "success", message |-> "",
               articles |-> final, total_count |-> Len(final),
               raw_articles_count |-> Len(limited),
               sources |-> sources, api_usage |-> usage]

\* Lines 231-327: the result of a request whose fetches are over.
NFSuccessResult(all, limit, min_rel, sources, usage) ==
    LET limited == ApplyMaxArticles(all, limit)
        final == FinalArticles(limited, min_rel, limit)
    IN IF limited = <<>>
         THEN [status |-> "success", message |-> "No articles found",
               articles |-> <<>>, total_count |-> 0,
               raw_articles_count |-> Len(limited),
               sources |-> sources, api_usage |-> usage]
         ELSE [status |-> "success", message |-> "",
               articles |-> final, total_count |-> Len(final),
               raw_articles_count |-> Len(limited),
               sources |-> sources, api_usage |-> usage]

NFFinish ==
    /\ nf_pc = "finish"
    /\ nf_result' = NFSuccessResult(nf_all, nf_limit, nf_min_relevance,
                                    nf_sources, nf_usage)
    /\ nf_pc' = "done"
    /\ UNCHANGED <<nf_initialized, nf_collectors, nf_idx, nf_limit,
                   nf_min_relevance, nf_all, nf_additional, nf_sources,
                   nf_usage, nf_expansion, nf_calls, nf_raised, nf_returned>>
    /\ UNCHANGED nonNewsVars

NewsLimits == {2, DefaultMaxArticles}

NewsMinRelevances == {0, DefaultMinRelevanceTenths}

NewsInit ==
    /\ nf_initialized = FALSE
    /\ nf_collectors = <<>>
    /\ nf_pc = "idle"
    /\ nf_idx = 1
    /\ nf_limit = DefaultMaxArticles
    /\ nf_min_relevance = DefaultMinRelevanceTenths
    /\ nf_all = <<>>
    /\ nf_additional = <<>>
    /\ nf_sources = <<>>
    /\ nf_usage = <<>>
    /\ nf_expansion = 0
    /\ nf_result = NoResult
    /\ nf_calls = <<>>
    /\ nf_raised = {}
    /\ nf_returned = {}

NextNews ==
    \/ \E use_mock \in BOOLEAN, keys \in SUBSET Range(RealCollectors) :
          NFInitialize(use_mock, keys)
    \/ \E limit \in NewsLimits, min_rel \in NewsMinRelevances, ok \in BOOLEAN :
          NFBegin(limit, min_rel, ok)
    \/ \E o \in FetchOutcomes, usage_ok \in BOOLEAN : NFFetchInitial(o, usage_ok)
    \/ NFLoopCheck
    \/ \E o \in FetchOutcomes : NFRefetch(o)
    \/ NFFinish

-----------------------------------------------------------------------------
(* LLMSentimentAgent with CacheManager, SemanticCache and VectorStore *)

\* Bounds of the sentiment model.
MaxLLMArticles == 2
MaxInvocations == 2

\* SemanticCache.similarity_threshold default, in hundredths.
SimilarityThreshold == 85

Symbols == {"AAPL", "MSFT"}

\* Articles handed to process().  text is the position of the article's
\* "title. content" string in embedding space.
LLMArticlePool ==
    { [id |-> "n1", text |-> 1],
      [id |-> "n2", text |-> 2],
      [id |-> "n3", text |-> 6],
      [id |-> "n4", text |-> 6] }

\* The sequences of at most n distinct elements of S.
RECURSIVE SeqsUpTo(_, _)
SeqsUpTo(S, n) ==
    IF n = 0 THEN {<<>>}
    ELSE LET shorter == SeqsUpTo(S, n - 1)
         IN shorter \cup UNION {{Append(q, x) : x \in S \ Range(q)} : q \in shorter}

LLMArticleLists == SeqsUpTo(LLMArticlePool, MaxLLMArticles)

\* SemanticCache._generate_embedding: model.encode of the article text.
Embedding(a) == a.text

\* Cosine similarity of two embeddings, in hundredths: 100 for equal texts,
\* ten less for each step of distance.
Similarity(e1, e2) == Max2(0, 100 - 10 * (IF e1 >= e2 THEN e1 - e2 ELSE e2 - e1))

\* LLMSentimentAgent._get_confidence_threshold, in hundredths.
ConfidenceThreshold(time_horizon) ==
    CASE time_horizon = "1s"  -> 80
      [] time_horizon = "1m"  -> 75
      [] time_horizon = "1h"  -> 70
      [] time_horizon = "1d"  -> 65
      [] time_horizon = "1w"  -> 60
      [] time_horizon = "1mo" -> 55
      [] time_horizon = "1y"  -> 50
      [] OTHER                -> 65

LLMHorizons == {"1d", "1w"}

\* What llm_client.analyze_sentiment can do: raise, or return a result.
LLMOutcomes ==
    { [raised |-> TRUE, sentiment_score |-> 0, sentiment_label |-> "neutral",
       confidence |-> 0],
      [raised |-> FALSE, sentiment_score |-> 75, sentiment_label |-> "positive",
       confidence |-> 90],
      [raised |-> FALSE, sentiment_score |-> -40, sentiment_label |-> "negative",
       confidence |-> 60] }

\* SemanticCache.__init__ only stores its configuration; the model is loaded
\* lazily by _get_model, so the constructor never raises ImportError.
SemanticCacheInitRaises == FALSE

\* CacheManager.__init__: the cache is disabled when it is configured off or
\* when constructing the SemanticCache raises ImportError.
CacheManagerInit(enable_cache) == enable_cache /\ ~SemanticCacheInitRaises

\* VectorStore.add: assignment into the insertion-ordered dictionaries.
VectorStoreAdd(store, entry) ==
    IF \E i \in 1..Len(store) : store[i].id = entry.id
      THEN [i \in 1..Len(store) |->
               IF store[i].id = entry.id THEN entry ELSE store[i]]
      ELSE Append(store, entry)

\* VectorStore.search: the entries at least `threshold` similar to the query,
\* most similar first, at most top_k of them.
VectorStoreSearch(store, query, top_k, threshold) ==
    LET scored == [i \in 1..Len(store) |->
                      [id |-> store[i].id,
                       similarity |-> Similarity(query, store[i].embedding),
                       metadata |-> store[i].metadata]]
        similar == SelectSeq(scored, LAMBDA r : r.similarity >= threshold)
    IN Prefix(StableSortDesc(similar, "similarity"), top_k)

\* Mutant: a cache that answers only for the article id it stored.
GetSimilarSameId(store, article, symbol) ==
    VectorStoreSearch(SelectSeq(store, LAMBDA e : e.id = article.id),
                      Embedding(article), 1, SimilarityThreshold)

\* SemanticCache.get_similar: the metadata of the most similar stored article,
\* or <<>> for a miss.
GetSimilar(store, article, symbol) ==
    VectorStoreSearch(store, Embedding(article), 1, SimilarityThreshold)

\* SemanticCache.store.
StoreEntry(article, llm_res, symbol) ==
    [id |-> article.id, embedding |-> Embedding(article),
     metadata |-> [symbol |-> symbol,
                   sentiment_score |-> llm_res.sentiment_score,
                   sentiment_label |-> llm_res.sentiment_label,
                   confidence |-> llm_res.confidence]]

\* The dictionary analyze_sentiment returns.
SentimentEntry(article, symbol, res, cached) ==
    [article_id |-> article.id, symbol |-> symbol,
     sentiment_score |-> res.sentiment_score,
     sentiment_label |-> res.sentiment_label,
     confidence |-> res.confidence, cached |-> cached]

LLMErrorNotInitialized(symbol) ==
    [symbol |-> symbol, status |-> "error",
     message |-> "Agent not initialized. Call initialize() first."]

LLMErrorNoArticles(symbol) ==
    [symbol |-> symbol, status |-> "error", message |-> "No articles provided",
     sentiment_scores |-> <<>>]

\* The except branch of process(), lines 178-185.
LLMErrorResult(symbol) ==
    [symbol |-> symbol, status |-> "error",
     message |-> "Error processing sentiment", sentiment_scores |-> <<>>]

LLMSuccessResult(symbol, scores, articles, min_conf) ==
    [symbol |-> symbol, sentiment_scores |-> scores, status |-> "success",
     total_articles |-> Len(articles), total_analyzed |-> Len(scores),
     filtered_by_confidence |-> Len(articles) - Len(scores),
     confidence_threshold |-> min_conf]

\* initialize() with the mock client: builds the CacheManager.  backend_ok is
\* the environment the agent is started in.
LLMInitialize(use_cache, backend_ok) ==
    /\ llm_pc = "idle"
    /\ ~llm_initialized
    /\ llm_initialized' = TRUE
    /\ llm_backend_ok' = backend_ok
    /\ llm_enable_cache' = CacheManagerInit(use_cache)
    /\ UNCHANGED <<llm_model_loaded, llm_store, llm_pc,
                   llm_symbol, llm_articles, llm_use_cache, llm_min_conf,
                   llm_idx, llm_scores, llm_result, llm_invocations,
                   llm_failure, llm_last, llm_client_calls>>
    /\ UNCHANGED nonLLMVars

\* process(), lines 120-147: the guards and the parameters.
LLMBegin(symbol, articles, use_cache, time_horizon) ==
    /\ llm_pc \in {"idle", "done"}
    /\ llm_invocations < MaxInvocations
    /\ llm_invocations' = llm_invocations + 1
    /\ llm_symbol' = symbol
    /\ llm_articles' = articles
    /\ llm_use_cache' = use_cache
    /\ llm_min_conf' = ConfidenceThreshold(time_horizon)
    /\ llm_idx' = 1
    /\ llm_scores' = <<>>
    /\ llm_failure' = "none"
    /\ IF ~llm_initialized
         THEN llm_pc' = "done" /\ llm_result' = LLMErrorNotInitialized(symbol)
       ELSE IF articles = <<>>
         THEN llm_pc' = "done" /\ llm_result' = LLMErrorNoArticles(symbol)
       ELSE llm_pc' = "analyze" /\ llm_result' = NoResult
    /\ UNCHANGED <<llm_backend_ok, llm_initialized, llm_enable_cache,
                   llm_model_loaded, llm_store, llm_last, llm_client_calls>>
    /\ UNCHANGED nonLLMVars

\* One iteration of the for-loop of process(), lines 149-156, with the
\* analyze_sentiment call it makes, and the return after the last article.
LLMAnalyze(o) ==
    /\ llm_pc = "analyze"
    /\ llm_idx <= Len(llm_articles)
    /\ LET article == llm_articles[llm_idx]
           \* get_cached_sentiment / store_sentiment reach the SemanticCache
           reaches_cache == llm_use_cache /\ llm_enable_cache
           \* _get_model raises ImportError when the backend cannot be loaded
           backend_raises == reaches_cache /\ ~llm_model_loaded /\ ~llm_backend_ok
           found == IF reaches_cache /\ ~backend_raises
                      THEN GetSimilar(llm_store, article, llm_symbol)
                      ELSE <<>>
           result == IF found # <<>>
                       THEN SentimentEntry(article, llm_symbol, found[1].metadata, TRUE)
                       ELSE SentimentEntry(article, llm_symbol, o, FALSE)
           scores == IF result.confidence >= llm_min_conf
                       THEN Append(llm_scores, result)
                       ELSE llm_scores
       IN IF backend_raises
            THEN /\ llm_failure' = "backend"
                 /\ llm_result' = LLMErrorResult(llm_symbol)
                 /\ llm_pc' = "done"
                 /\ UNCHANGED <<llm_model_loaded, llm_store, llm_idx, llm_scores,
                                llm_last, llm_client_calls>>
          ELSE IF found = <<>> /\ o.raised
            THEN /\ llm_failure' = "llm"
                 /\ llm_result' = LLMErrorResult(llm_symbol)
                 /\ llm_pc' = "done"
                 /\ llm_model_loaded' = (llm_model_loaded \/ reaches_cache)
                 /\ llm_client_calls' = llm_client_calls + 1
                 /\ UNCHANGED <<llm_store, llm_idx, llm_scores, llm_last>>
          ELSE /\ llm_model_loaded' = (llm_model_loaded \/ reaches_cache)
               /\ llm_last' = result
               /\ llm_client_calls' = IF found = <<>> THEN llm_client_calls + 1
                                      ELSE llm_client_calls
               /\ llm_store' = IF found = <<>> /\ reaches_cache
                                 THEN VectorStoreAdd(llm_store,
                                          StoreEntry(article, o, llm_symbol))
                                 ELSE llm_store
               /\ llm_scores' = scores
               /\ llm_idx' = llm_idx + 1
               /\ UNCHANGED llm_failure
               /\ IF llm_idx = Len(llm_articles)
                    THEN /\ llm_pc' = "done"
                         /\ llm_result' = LLMSuccessResult(llm_symbol, scores,
                                              llm_articles, llm_min_conf)
                    ELSE UNCHANGED <<llm_pc, llm_result>>
    /\ UNCHANGED <<llm_backend_ok, llm_initialized, llm_enable_cache,
                   llm_symbol, llm_articles, llm_use_cache, llm_min_conf,
                   llm_invocations>>
    /\ UNCHANGED nonLLMVars

LLMInit ==
    /\ llm_backend_ok = TRUE
    /\ llm_initialized = FALSE
    /\ llm_enable_cache = FALSE
    /\ llm_model_loaded = FALSE
    /\ llm_store = <<>>
    /\ llm_pc = "idle"
    /\ llm_symbol = "AAPL"
    /\ llm_articles = <<>>
    /\ llm_use_cache = FALSE
    /\ llm_min_conf = ConfidenceThreshold("1d")
    /\ llm_idx = 1
    /\ llm_scores = <<>>
    /\ llm_result = NoResult
    /\ llm_invocations = 0
    /\ llm_failure = "none"
    /\ llm_last = NoResult
    /\ llm_client_calls = 0

NextLLM ==
    \/ \E use_cache \in BOOLEAN, backend_ok \in BOOLEAN :
          LLMInitialize(use_cache, backend_ok)
    \/ \E symbol \in Symbols, articles \in LLMArticleLists,
          use_cache \in BOOLEAN, h \in LLMHorizons :
          LLMBegin(symbol, articles, use_cache, h)
    \/ \E o \in LLMOutcomes : LLMAnalyze(o)

-----------------------------------------------------------------------------
(* SentimentAggregator with TimeWeightedAggregator and ImpactScorer *)

\* Bounds of the aggregation model.
MaxAggScores == 2
MaxAggRequests == 2

\* Sentiment scores handed to process().  sentiment_score and confidence are
\* in hundredths, age is the age of processed_at in minutes; numeric is FALSE
\* for an entry whose sentiment_score is null.
AggScorePool ==
    { [sentiment_score |-> 75,  confidence |-> 90, age |-> 0,    numeric |-> TRUE],
      [sentiment_score |-> -40, confidence |-> 70, age |-> 1440, numeric |-> TRUE],
      [sentiment_score |-> 20,  confidence |-> 60, age |-> 0,    numeric |-> TRUE],
      [sentiment_score |-> 0,   confidence |-> 90, age |-> 0,    numeric |-> FALSE] }

AggScoreLists == SeqsUpTo(AggScorePool, MaxAggScores)

AggHorizons == {"1h", "1d", "5d"}

RECURSIVE SumSeq(_)
SumSeq(q) == IF q = <<>> THEN 0 ELSE Head(q) + SumSeq(Tail(q))

RECURSIVE Pow2(_)
Pow2(n) == IF n = 0 THEN 1 ELSE 2 * Pow2(n - 1)

Abs(x) == IF x >= 0 THEN x ELSE 0 - x

\* SentimentAggregator._get_horizon_thresholds: (min_confidence in
\* hundredths, min_articles).
HorizonThresholds(time_horizon) ==
    CASE time_horizon = "1s"  -> <<80, 3>>
      [] time_horizon = "1m"  -> <<75, 5>>
      [] time_horizon = "1h"  -> <<70, 8>>
      [] time_horizon = "1d"  -> <<65, 10>>
      [] time_horizon = "1w"  -> <<60, 15>>
      [] time_horizon = "1mo" -> <<55, 20>>
      [] time_horizon = "1y"  -> <<50, 25>>
      [] OTHER                -> <<65, 10>>

\* TimeWeightedAggregator._adjust_for_horizon: the (half_life, max_age) pair
\* in minutes after the call; an unknown horizon leaves the pair as it was.
AdjustForHorizon(time_horizon, half_life, max_age) ==
    CASE time_horizon \in {"1s", "1m"} -> <<6, 30>>
      [] time_horizon = "1h"  -> <<120, 360>>
      [] time_horizon = "1d"  -> <<1440, 4320>>
      [] time_horizon = "1w"  -> <<4320, 10080>>
      [] time_horizon = "1mo" -> <<10080, 43200>>
      [] time_horizon = "1y"  -> <<43200, 525600>>
      [] OTHER                -> <<half_life, max_age>>

\* TimeWeightedAggregator._calculate_time_weight with exponential decay, in
\* thousandths.  The ages of the pool are whole multiples of the half-lives
\* they meet below max_age, so 0.5 ** (age / half_life) is exact.
TimeWeight(age, half_life, max_age) ==
    IF age > max_age THEN 0
    ELSE Max2(0, Min2(1000, 1000 \div Pow2(age \div half_life)))

\* The label of the quotient num / den (in hundredths): positive above 0.3,
\* negative below -0.3.
SentimentLabel(num, den) ==
    IF num > 30 * den THEN "positive"
    ELSE IF num < (0 - 30) * den THEN "negative"
    ELSE "neutral"

\* TimeWeightedAggregator.aggregate_simple on a non-empty list.
AggregateSimple(scores) ==
    LET n == Len(scores)
        sent == SumSeq([i \in 1..n |-> scores[i].sentiment_score])
        conf == SumSeq([i \in 1..n |-> scores[i].confidence])
    IN [aggregated_sentiment |-> sent \div n,
        sentiment_label |-> SentimentLabel(sent, n),
        confidence |-> conf \div n, news_count |-> n,
        time_weighted |-> FALSE, weights_applied |-> <<>>]

\* TimeWeightedAggregator.aggregate on a non-empty list.
AggregateTimeWeighted(scores, half_life, max_age) ==
    LET n == Len(scores)
        weights == [i \in 1..n |-> TimeWeight(scores[i].age, half_life, max_age)]
        total == SumSeq(weights)
        sent == SumSeq([i \in 1..n |-> scores[i].sentiment_score * weights[i]])
        conf == SumSeq([i \in 1..n |-> scores[i].confidence * weights[i]])
        simple == AggregateSimple(scores)
    IN IF total = 0
         THEN [simple EXCEPT !.time_weighted = TRUE, !.weights_applied = weights]
         ELSE [aggregated_sentiment |-> sent \div total,
               sentiment_label |-> SentimentLabel(sent, total),
               confidence |-> conf \div total, news_count |-> n,
               time_weighted |-> TRUE, weights_applied |-> weights]

\* ImpactScorer.calculate_recency_score, in thousandths.
RecencyScore(weights) == SumSeq(weights) \div Len(weights)

\* ImpactScorer.calculate_impact with the default thresholds; the impact
\* score is in ten-thousandths.
CalculateImpact(aggregated) ==
    LET volume == Min2(aggregated.news_count * 150, 3000)
        recency == IF aggregated.weights_applied # <<>>
                     THEN 2 * RecencyScore(aggregated.weights_applied)
                     ELSE 1500
        impact_score == Abs(aggregated.aggregated_sentiment) * 40 + volume
                        + recency + aggregated.confidence * 10
    IN IF impact_score >= 7000 /\ aggregated.news_count >= 10 THEN "High"
       ELSE IF impact_score >= 4000 /\ aggregated.news_count >= 5 THEN "Medium"
       ELSE "Low"

AggErrorNotInitialized ==
    [status |-> "error",
     message |-> "Agent not initialized. Call initialize() first."]

\* The neutral dictionary of lines 144-156 and 223-235.
AggNeutralResult(status, message) ==
    [status |-> status, message |-> message, aggregated_sentiment |-> 0,
     sentiment_label |-> "neutral", confidence |-> 0, impact |-> "Low",
     news_count |-> 0, time_weighted |-> FALSE]

AggSuccessResult(aggregated, time_horizon) ==
    [status |-> "success",
     aggregated_sentiment |-> aggregated.aggregated_sentiment,
     sentiment_label |-> aggregated.sentiment_label,
     confidence |-> aggregated.confidence,
     impact |-> CalculateImpact(aggregated),
     news_count |-> aggregated.news_count,
     time_weighted |-> aggregated.time_weighted,
     time_horizon |-> time_horizon]

\* The confidence filter of lines 129-135.
AggFilter(scores, time_horizon) ==
    SelectSeq(scores, LAMBDA x : x.confidence >= HorizonThresholds(time_horizon)[1])

\* initialize(): the TimeWeightedAggregator is built with the default
\* half-life and its constructor adjusts it for "1d".
AggInitialize ==
    /\ ~agg_initialized
    /\ agg_initialized' = TRUE
    /\ agg_half_life' = AdjustForHorizon("1d", 1440, 10080)[1]
    /\ agg_max_age' = AdjustForHorizon("1d", 1440, 10080)[2]
    /\ UNCHANGED <<agg_params, agg_result, agg_requests>>
    /\ UNCHANGED nonAggVars

\* The decay pair the time aggregator holds after a process() call.
AggDecayAfter(scores, time_weighted, time_horizon, half_life, max_age) ==
    IF AggFilter(scores, time_horizon) # <<>> /\ time_weighted
      THEN AdjustForHorizon(time_horizon, half_life, max_age)
      ELSE <<half_life, max_age>>

\* The dictionary process() of an initialised aggregator returns, lines
\* 121-235, for a time aggregator holding (half_life, max_age).
AggResultOf(scores, time_weighted, time_horizon, half_life, max_age) ==
    LET filtered == AggFilter(scores, time_horizon)
        adjusted == AggDecayAfter(scores, time_weighted, time_horizon,
                                  half_life, max_age)
        \* arithmetic on a null sentiment_score raises TypeError
        raises == \E i \in 1..Len(filtered) : ~filtered[i].numeric
        aggregated == IF time_weighted
                        THEN AggregateTimeWeighted(filtered, adjusted[1], adjusted[2])
                        ELSE AggregateSimple(filtered)
    IN IF filtered = <<>>
         THEN AggNeutralResult("error", "No sentiment scores provided")
       ELSE IF raises
         THEN AggNeutralResult("error", "Error aggregating sentiment")
       ELSE AggSuccessResult(aggregated, time_horizon)

\* process(), lines 114-235.
AggProcess(scores, time_weighted, time_horizon) ==
    LET adjusted == AggDecayAfter(scores, time_weighted, time_horizon,
                                  agg_half_life, agg_max_age)
    IN
    /\ agg_requests < MaxAggRequests
    /\ agg_requests' = agg_requests + 1
    /\ agg_params' = [sentiment_scores |-> scores, time_weighted |-> time_weighted,
                      time_horizon |-> time_horizon]
    /\ IF ~agg_initialized
         THEN /\ agg_result' = AggErrorNotInitialized
              /\ UNCHANGED <<agg_half_life, agg_max_age>>
       ELSE /\ agg_half_life' = adjusted[1]
            /\ agg_max_age' = adjusted[2]
            /\ agg_result' = AggResultOf(scores, time_weighted, time_horizon,
                                         agg_half_life, agg_max_age)
    /\ UNCHANGED agg_initialized
    /\ UNCHANGED nonAggVars

AggInit ==
    /\ agg_initialized = FALSE
    /\ agg_half_life = 0
    /\ agg_max_age = 0
    /\ agg_params = [sentiment_scores |-> <<>>, time_weighted |-> TRUE,
                     time_horizon |-> "1d"]
    /\ agg_result = NoResult
    /\ agg_requests = 0

NextAgg ==
    \/ AggInitialize
    \/ \E scores \in AggScoreLists, tw \in BOOLEAN, h \in AggHorizons :
          AggProcess(scores, tw, h)

-----------------------------------------------------------------------------
(* The /visualize pipeline *)

\* Bound of the pipeline model.
MaxPipeRequests == 2

\* PipelineRequest defaults: max_articles and min_relevance (in tenths).
PipeMaxArticles == 10
PipeMinRelevanceTenths == 3

\* DateRangeCalculator.HORIZON_WINDOWS keys.
SupportedHorizons == {"1s", "1m", "1h", "1d", "1w", "1mo", "1y"}

PipeHorizons == {"1d", "1w", "5d"}

\* news_agent.process of the initialised singleton: the error dictionary of
\* the outer except for an unsupported horizon, else the result for the
\* articles `all` its collectors delivered.
PipeNewsResult(time_horizon, min_relevance, all) ==
    IF time_horizon \in SupportedHorizons
      THEN NFSuccessResult(all, PipeMaxArticles, min_relevance, <<>>, <<>>)
      ELSE NFErrorResult

\* llm_agent.process on a non-empty article list, outcomes[i] being what the
\* LLM client does for article i (a cache hit yields an entry of the same
\* shape): the error dictionary when a call raises, else the scores that
\* pass the horizon's confidence threshold.
PipeLLMResult(symbol, articles, outcomes, time_horizon) ==
    LET min_conf == ConfidenceThreshold(time_horizon)
        entries == [i \in 1..Len(articles) |->
                       SentimentEntry(articles[i], symbol, outcomes[i], FALSE)]
    IN IF \E i \in 1..Len(articles) : outcomes[i].raised
         THEN LLMErrorResult(symbol)
         ELSE LLMSuccessResult(symbol,
                  SelectSeq(entries, LAMBDA e : e.confidence >= min_conf),
                  articles, min_conf)

\* A sentiment score as the aggregator reads it: processed just now.
PipeAggScore(e) ==
    [sentiment_score |-> e.sentiment_score, confidence |-> e.confidence,
     age |-> 0, numeric |-> TRUE]

StepStatus(result) == IF result.status = "success" THEN "completed" ELSE "error"

PipeNeutralFinal ==
    [aggregated_sentiment |-> 0, sentiment_label |-> "neutral",
     confidence |-> 0, impact |-> "Low", news_count |-> 0,
     time_weighted |-> FALSE]

PipeFinalOf(r) ==
    [aggregated_sentiment |-> r.aggregated_sentiment,
     sentiment_label |-> r.sentiment_label, confidence |-> r.confidence,
     impact |-> r.impact, news_count |-> r.news_count,
     time_weighted |-> r.time_weighted]

\* Lines 121-210: the response skeleton and step 1.  Nothing inside the
\* step's try block raises on the dictionaries process() returns, so its
\* except branch is not taken.
PipeStep1(symbol, min_relevance, time_horizon, all) ==
    LET news_result == PipeNewsResult(time_horizon, min_relevance, all) IN
    /\ pipe_pc \in {"idle", "done"}
    /\ pipe_requests < MaxPipeRequests
    /\ pipe_requests' = pipe_requests + 1
    /\ pipe_symbol' = symbol
    /\ pipe_horizon' = time_horizon
    /\ pipe_status' = "success"
    /\ pipe_final' = NoResult
    /\ pipe_articles' = news_result.articles
    /\ pipe_scores' = <<>>
    /\ pipe_steps' = <<[agent |-> "news_fetch_agent",
                        status |-> StepStatus(news_result)]>>
    /\ pipe_pc' = "step2"
    /\ UNCHANGED nonPipeVars

\* Lines 216-345: step 2.
PipeStep2(outcomes) ==
    /\ pipe_pc = "step2"
    /\ IF pipe_articles = <<>>
         THEN /\ pipe_scores' = <<>>
              /\ pipe_steps' = Append(pipe_steps,
                     [agent |-> "llm_sentiment_agent", status |-> "completed"])
         ELSE LET sentiment_result ==
                      PipeLLMResult(pipe_symbol, pipe_articles, outcomes, pipe_horizon)
              IN /\ pipe_scores' = sentiment_result.sentiment_scores
                 /\ pipe_steps' = Append(pipe_steps,
                        [agent |-> "llm_sentiment_agent",
                         status |-> StepStatus(sentiment_result)])
    /\ pipe_pc' = "step3"
    /\ UNCHANGED <<pipe_symbol, pipe_horizon, pipe_status, pipe_articles,
                   pipe_final, pipe_requests>>
    /\ UNCHANGED nonPipeVars

\* Lines 350-455: step 3 and the return.  The aggregation parameters carry
\* no time_horizon, so the aggregator works with its default "1d".
PipeStep3 ==
    /\ pipe_pc = "step3"
    /\ IF pipe_scores = <<>>
         THEN /\ pipe_steps' = Append(pipe_steps,
                     [agent |-> "sentiment_aggregator", status |-> "completed"])
              /\ pipe_final' = PipeNeutralFinal
         ELSE LET scores == [i \in 1..Len(pipe_scores) |->
                                PipeAggScore(pipe_scores[i])]
                  decay == AdjustForHorizon("1d", 1440, 10080)
                  aggregation_result ==
                      AggResultOf(scores, TRUE, "1d", decay[1], decay[2])
              IN /\ pipe_steps' = Append(pipe_steps,
                        [agent |-> "sentiment_aggregator",
                         status |-> StepStatus(aggregation_result)])
                 /\ pipe_final' = PipeFinalOf(aggregation_result)
    /\ pipe_pc' = "done"
    /\ UNCHANGED <<pipe_symbol, pipe_horizon, pipe_status, pipe_articles,
                   pipe_scores, pipe_requests>>
    /\ UNCHANGED nonPipeVars

PipeInit ==
    /\ pipe_pc = "idle"
    /\ pipe_symbol = "AAPL"
    /\ pipe_horizon = "1d"
    /\ pipe_steps = <<>>
    /\ pipe_status = "success"
    /\ pipe_articles = <<>>
    /\ pipe_scores = <<>>
    /\ pipe_final = NoResult
    /\ pipe_requests = 0

NextPipeline ==
    \/ \E symbol \in Symbols,
          min_relevance \in {PipeMinRelevanceTenths, DefaultMinRelevanceTenths},
          h \in PipeHorizons,
          all \in SeqsUpTo(ArticlePool, Cardinality(ArticlePool)) :
          PipeStep1(symbol, min_relevance, h, all)
    \/ \E outcomes \in [1..Len(pipe_articles) -> LLMOutcomes] : PipeStep2(outcomes)
    \/ PipeStep3

-----------------------------------------------------------------------------
(* SupportResistanceAgent: process, detect_levels and the result cache *)

\* Bounds of the support/resistance model.  The agent keeps 100 cache
\* entries (agent.py:772); the model keeps SRCacheCapacity.
SRCacheCapacity == 2
MaxSRRequests == 4
MaxSRTicks == 2

\* _cache_ttl in minutes, and the length of one clock tick.
SRCacheTtlMinutes == 60
SRTickMinutes == 30

\* Defaults of process(): max_levels and min_strength.
SRDefaultMaxLevels == 5
SRDefaultMinStrength == 50

\* Python dictionaries as sequences of [key, value] in insertion order.
DictKeys(d) == {d[i].key : i \in 1..Len(d)}

DictGet(d, k) == d[CHOOSE i \in 1..Len(d) : d[i].key = k].value

DictPut(d, k, v) ==
    IF k \in DictKeys(d)
      THEN [i \in 1..Len(d) |-> IF d[i].key = k THEN [key |-> k, value |-> v] ELSE d[i]]
      ELSE Append(d, [key |-> k, value |-> v])

DictDel(d, k) == SelectSeq(d, LAMBDA e : e.key # k)

\* min(d.keys(), key=lambda k: d[k]): the first key, in iteration order,
\* whose value is smallest.
DictMinKey(d) ==
    d[CHOOSE i \in 1..Len(d) :
          \A j \in 1..Len(d) :
              d[i].value < d[j].value \/ (d[i].value = d[j].value /\ i <= j)].key

\* Lines 153-166: the cache key; projection_periods is not part of it.
SRCacheKey(symbol, min_strength, max_levels, timeframe, project_future) ==
    <<symbol, min_strength, max_levels, timeframe, project_future>>

\* What load_ohlcv_data and the detection steps deliver for one call: no
\* data, too few bars, an exception inside the pipeline, or the scored
\* candidate levels with the last close.  The candidates are in the order
\* merge_with_price_levels leaves them in: the clustered price levels, then
\* the volume levels that matched none of them (volume_profile.py:279-310);
\* strengths are integers (strength_calculator.py:116), so equal strengths
\* occur.
SRDataOutcomes ==
    { [kind |-> "empty", current_price |-> 0, support |-> <<>>, resistance |-> <<>>],
      [kind |-> "raise", current_price |-> 0, support |-> <<>>, resistance |-> <<>>],
      [kind |-> "ok", current_price |-> 100,
       support |-> <<[price |-> 90, strength |-> 60], [price |-> 95, strength |-> 80]>>,
       resistance |-> <<[price |-> 110, strength |-> 70], [price |-> 120, strength |-> 40],
                        [price |-> 105, strength |-> 70]>>] }

SRErrorNotInitialized(symbol) ==
    [symbol |-> symbol, status |-> "error",
     message |-> "Agent not initialized. Call initialize() first."]

\* The error dictionaries of lines 252-256, 271-275 and 510-514.
SRErrorResult(symbol, message) ==
    [symbol |-> symbol, status |-> "error", message |-> message]

\* Mutant: step 6 without the slice [:max_levels].
SRRankLevelsNoLimit(levels, min_strength, max_levels) ==
    StableSortDesc(SelectSeq(levels, LAMBDA l : l.strength >= min_strength),
                   "strength")

\* Step 6, lines 430-451: threshold, strongest first, at most max_levels.
SRRankLevels(levels, min_strength, max_levels) ==
    Prefix(StableSortDesc(SelectSeq(levels, LAMBDA l : l.strength >= min_strength),
                          "strength"),
           max_levels)

\* The dictionary of lines 468-492; it has no "status" key.
SRLevelsResult(symbol, timeframe, data, min_strength, max_levels) ==
    LET support == SRRankLevels(data.support, min_strength, max_levels)
        resistance == SRRankLevels(data.resistance, min_strength, max_levels)
    IN [symbol |-> symbol, current_price |-> data.current_price,
        timeframe |-> timeframe,
        support_levels |-> support, resistance_levels |-> resistance,
        total_levels |-> Len(support) + Len(resistance),
        nearest_support |-> IF support # <<>> THEN support[1].price ELSE 0,
        nearest_resistance |-> IF resistance # <<>> THEN resistance[1].price ELSE 0]

\* detect_levels, lines 181-514.
DetectLevels(symbol, min_strength, max_levels, timeframe, data) ==
    CASE data.kind = "empty" -> SRErrorResult(symbol, "No data available")
      [] data.kind = "raise" -> SRErrorResult(symbol, "exception")
      [] OTHER -> SRLevelsResult(symbol, timeframe, data, min_strength, max_levels)

\* params.get("projection_periods", 20), line 158.
SRDefaultProjectionPeriods == 20

\* Lines 494-498: predicted_future_levels (here their projected_timeframe,
\* level_projection.py), projection_periods and projection_timeframe join the
\* result when project_future is set and levels were predicted.
WithProjection(result, timeframe, projection_periods) ==
    [f \in DOMAIN result \cup {"predicted_future_levels", "projection_periods",
                               "projection_timeframe"} |->
        CASE f = "predicted_future_levels" -> <<[projected_timeframe |-> projection_periods]>>
          [] f = "projection_periods" -> projection_periods
          [] f = "projection_timeframe" -> timeframe
          [] OTHER -> result[f]]

\* detect_levels, lines 181-514, with project_future and projection_periods.
DetectLevelsProjected(symbol, min_strength, max_levels, timeframe, project_future, projection_periods, data) ==
    LET result == DetectLevels(symbol, min_strength, max_levels, timeframe, data)
    IN IF project_future /\ data.kind = "ok"
         THEN WithProjection(result, timeframe, projection_periods)
         ELSE result

\* _is_cached, lines 751-760.
SRIsCached(cache, timestamps, key, now) ==
    /\ key \in DictKeys(cache)
    /\ key \in DictKeys(timestamps)
    /\ (now - DictGet(timestamps, key)) * SRTickMinutes < SRCacheTtlMinutes

\* _cache_result, lines 766-775, run without interruption: the pair
\* <<cache, timestamps>> after the call.
SRCacheResult(cache, timestamps, key, result, now) ==
    LET c == DictPut(cache, key, result)
        t == DictPut(timestamps, key, now)
        oldest_key == DictMinKey(t)
    IN IF Len(c) > SRCacheCapacity
         THEN <<DictDel(c, oldest_key), DictDel(t, oldest_key)>>
         ELSE <<c, t>>

SRInitialize ==
    /\ ~sr_initialized
    /\ sr_initialized' = TRUE
    /\ UNCHANGED <<sr_cache, sr_timestamps, sr_now, sr_result, sr_hit, sr_used,
                   sr_params, sr_requests>>
    /\ UNCHANGED <<srbVars, nonSRVars>>

\* The keys of cache, least recently used first, after key was used.
SRTouch(used, key, cache) ==
    SelectSeq(Append(SelectSeq(used, LAMBDA k : k # key), key),
              LAMBDA k : k \in DictKeys(cache))

\* api/routers/support_resistance_agent.py, lines 155-159: the router adds
\* api_metadata to the dictionary process() returned; the request number
\* stands for request_time.
WithApiMetadata(result, request) ==
    [f \in DOMAIN result \cup {"api_metadata"} |->
        IF f = "api_metadata" THEN [request |-> request] ELSE result[f]]

\* What the caller of process() does to the dictionary it got back:
\* nothing, or the router's api_metadata.
CallerEdit(result, caller_edit, request) ==
    IF caller_edit = "api_metadata" THEN WithApiMetadata(result, request) ELSE result

\* process(), lines 122-179, followed by what its caller does to the returned
\* dictionary.  On a miss the dictionary stored at line 768 is the object
\* returned at line 179, so the caller's edit acts on the cache entry too; on a hit
\* _get_cached returns a copy (line 764).  sr_result is the dictionary as
\* process() returned it.
SRProcessFull(symbol, min_strength, max_levels, use_cache, project_future, projection_periods, data, caller_edit) ==
    LET timeframe == "1d"
        key == SRCacheKey(symbol, min_strength, max_levels, timeframe, project_future)
        cached == use_cache /\ SRIsCached(sr_cache, sr_timestamps, key, sr_now)
        result == DetectLevelsProjected(symbol, min_strength, max_levels, timeframe,
                                        project_future, projection_periods, data)
        stored == SRCacheResult(sr_cache, sr_timestamps, key,
                                CallerEdit(result, caller_edit, sr_requests + 1), sr_now)
    IN
    /\ sr_requests < MaxSRRequests
    /\ sr_requests' = sr_requests + 1
    /\ sr_params' = [min_strength |-> min_strength, max_levels |-> max_levels,
                     project_future |-> project_future,
                     projection_periods |-> projection_periods]
    /\ IF ~sr_initialized
         THEN /\ sr_result' = SRErrorNotInitialized(symbol)
              /\ sr_hit' = FALSE
              /\ UNCHANGED <<sr_cache, sr_timestamps, sr_used>>
       ELSE IF cached
         THEN /\ sr_result' = DictGet(sr_cache, key)
              /\ sr_hit' = TRUE
              /\ sr_used' = SRTouch(sr_used, key, sr_cache)
              /\ UNCHANGED <<sr_cache, sr_timestamps>>
       ELSE /\ sr_result' = result
            /\ sr_hit' = FALSE
            /\ IF use_cache
                 THEN /\ sr_cache' = stored[1]
                      /\ sr_timestamps' = stored[2]
                      /\ sr_used' = SRTouch(sr_used, key, stored[1])
                 ELSE UNCHANGED <<sr_cache, sr_timestamps, sr_used>>
    /\ UNCHANGED <<sr_initialized, sr_now>>
    /\ UNCHANGED <<srbVars, nonSRVars>>

\* process() without project_future in params (line 157).
SRProcessThen(symbol, min_strength, max_levels, use_cache, data, caller_edit) ==
    SRProcessFull(symbol, min_strength, max_levels, use_cache, FALSE,
                  SRDefaultProjectionPeriods, data, caller_edit)

\* process() with project_future True and projection_periods in params.
SRProcessProjected(symbol, use_cache, projection_periods, data) ==
    SRProcessFull(symbol, SRDefaultMinStrength, SRDefaultMaxLevels, use_cache, TRUE,
                  projection_periods, data, "none")

\* process(), lines 122-179, with min_strength and max_levels of the caller,
\* who leaves the result as it is.
SRProcessLevels(symbol, min_strength, max_levels, use_cache, data) ==
    SRProcessThen(symbol, min_strength, max_levels, use_cache, data, "none")

\* process() without max_levels in params: self.max_levels (line 154).
SRProcess(symbol, min_strength, use_cache, data) ==
    SRProcessLevels(symbol, min_strength, SRDefaultMaxLevels, use_cache, data)

\* Time passes.
SRTick ==
    /\ sr_now < MaxSRTicks
    /\ sr_now' = sr_now + 1
    /\ UNCHANGED <<sr_initialized, sr_cache, sr_timestamps, sr_result, sr_hit,
                   sr_used, sr_params, sr_requests>>
    /\ UNCHANGED <<srbVars, nonSRVars>>

SRInit ==
    /\ sr_initialized = FALSE
    /\ sr_cache = <<>>
    /\ sr_timestamps = <<>>
    /\ sr_now = 0
    /\ sr_result = NoResult
    /\ sr_hit = FALSE
    /\ sr_used = <<>>
    /\ sr_params = [min_strength |-> SRDefaultMinStrength,
                    max_levels |-> SRDefaultMaxLevels,
                    project_future |-> FALSE,
                    projection_periods |-> SRDefaultProjectionPeriods]
    /\ sr_requests = 0

NextSR ==
    \/ SRInitialize
    \/ \E symbol \in Symbols, min_strength \in {SRDefaultMinStrength, 80},
          use_cache \in BOOLEAN, data \in SRDataOutcomes :
          SRProcess(symbol, min_strength, use_cache, data)
    \/ SRTick

\* Requests that set min_strength and max_levels in params.
SRMinStrengths == {SRDefaultMinStrength, 80}

SRMaxLevels == {1, SRDefaultMaxLevels}

NextSRLevels ==
    \/ SRInitialize
    \/ \E min_strength \in SRMinStrengths, max_levels \in SRMaxLevels,
          use_cache \in BOOLEAN,
          data \in {d \in SRDataOutcomes : d.kind \in {"ok", "empty"}} :
          SRProcessLevels("AAPL", min_strength, max_levels, use_cache, data)
    \/ SRTick

\* Bars whose last close has fallen through an earlier valley: the valley
\* cluster is a support candidate (lines 301-302) above current_price, which
\* is the last close (line 277); no step compares a level with current_price.
SRCrossedOutcomes ==
    { [kind |-> "ok", current_price |-> 100,
       support |-> <<[price |-> 104, strength |-> 75], [price |-> 95, strength |-> 60]>>,
       resistance |-> <<[price |-> 110, strength |-> 70]>>] }

NextSRNearest ==
    \/ SRInitialize
    \/ \E symbol \in Symbols, min_strength \in SRMinStrengths, use_cache \in BOOLEAN,
          data \in SRCrossedOutcomes \cup {d \in SRDataOutcomes : d.kind = "ok"} :
          SRProcess(symbol, min_strength, use_cache, data)
    \/ SRTick

\* get_levels of the router, lines 139-159: process() with use_cache True, then
\* api_metadata on its result.
SRRouterGetLevels(symbol, min_strength, data) ==
    SRProcessThen(symbol, min_strength, SRDefaultMaxLevels, TRUE, data,
                  "api_metadata")

NextSRRouter ==
    \/ SRInitialize
    \/ \E min_strength \in SRMinStrengths, data \in SRDataOutcomes :
          SRRouterGetLevels("AAPL", min_strength, data)
    \/ \E data \in SRDataOutcomes :
          SRProcess("AAPL", SRDefaultMinStrength, TRUE, data)
    \/ SRTick

\* Requests with project_future that set projection_periods.
SRProjectionPeriods == {10, SRDefaultProjectionPeriods}

NextSRProject ==
    \/ SRInitialize
    \/ \E symbol \in Symbols, use_cache \in BOOLEAN,
          projection_periods \in SRProjectionPeriods, data \in SRDataOutcomes :
          SRProcessProjected(symbol, use_cache, projection_periods, data)
    \/ SRTick

-----------------------------------------------------------------------------
(* detect_levels_batch with use_parallel: process() on the pool's threads *)

\* Bounds of the batch model: worker threads (the code starts
\* min(10, len(symbols))) and symbols in the batch.
SRWorkers == 2
SRBatchSize == 4

\* Line 548 takes the thread pool for more than 5 symbols; the model for more
\* than SRParallelThreshold.
SRParallelThreshold == 3

Tickers == <<"AAPL", "MSFT", "AAPL", "GOOG", "AMZN", "TSLA">>

SRBatchSymbols == Prefix(Tickers, SRBatchSize)

SRBatchKey(task) ==
    SRCacheKey(SRBatchSymbols[task], SRDefaultMinStrength, SRDefaultMaxLevels,
               "1d", FALSE)

\* What the data loader delivers during one batch: no data for GOOG, bars
\* for every other symbol.
SRBatchData(symbol) ==
    CHOOSE d \in SRDataOutcomes :
        d.kind = (IF symbol = "GOOG" THEN "empty" ELSE "ok")

\* The batch runs on the initialised agent.
SRBReady == sr_initialized

\* Lines 543-548: the batch starts and chooses its mode.
SRBStart(use_parallel) ==
    /\ SRBReady
    /\ srb_mode = "none"
    /\ srb_mode' = IF use_parallel /\ Len(SRBatchSymbols) > SRParallelThreshold
                     THEN "parallel" ELSE "sequential"
    /\ UNCHANGED <<srb_next, srb_results, srw_pc, srw_task, srw_result, srw_oldest>>
    /\ UNCHANGED <<srVars, nonSRVars>>

\* Lines 548-560: the executor hands the next symbol to an idle worker.
SRWSubmit(w) ==
    /\ SRBReady
    /\ srb_mode = "parallel"
    /\ srw_pc[w] = "idle"
    /\ srb_next <= Len(SRBatchSymbols)
    /\ srw_task' = [srw_task EXCEPT ![w] = srb_next]
    /\ srb_next' = srb_next + 1
    /\ srw_pc' = [srw_pc EXCEPT ![w] = "process"]
    /\ UNCHANGED <<srb_mode, srb_results, srw_result, srw_oldest>>
    /\ UNCHANGED <<srVars, nonSRVars>>

\* process(), lines 159-173: the cache test of line 168, then detect_levels
\* when the key is not cached.
SRWProcess(w) ==
    LET key == SRBatchKey(srw_task[w])
        symbol == SRBatchSymbols[srw_task[w]]
        data == SRBatchData(symbol)
    IN
    /\ srw_pc[w] = "process"
    /\ IF SRIsCached(sr_cache, sr_timestamps, key, sr_now)
         THEN /\ srw_pc' = [srw_pc EXCEPT ![w] = "get_cached"]
              /\ UNCHANGED srw_result
         ELSE /\ srw_result' = [srw_result EXCEPT ![w] =
                     DetectLevels(symbol, SRDefaultMinStrength,
                                  SRDefaultMaxLevels, "1d", data)]
              /\ srw_pc' = [srw_pc EXCEPT ![w] = "store_result"]
    /\ UNCHANGED <<srb_mode, srb_next, srb_results, srw_task, srw_oldest>>
    /\ UNCHANGED <<srVars, nonSRVars>>

\* Lines 170 and 764: return self._cache[cache_key].copy(); KeyError when
\* the key is gone, and the batch records an error entry (lines 566-572).
SRWGetCached(w) ==
    LET key == SRBatchKey(srw_task[w])
    IN
    /\ srw_pc[w] = "get_cached"
    /\ srb_results' = [srb_results EXCEPT ![srw_task[w]] =
           IF key \in DictKeys(sr_cache)
             THEN DictGet(sr_cache, key)
             ELSE SRErrorResult(SRBatchSymbols[srw_task[w]], "KeyError")]
    /\ srw_pc' = [srw_pc EXCEPT ![w] = "idle"]
    /\ UNCHANGED <<srb_mode, srb_next, srw_task, srw_result, srw_oldest>>
    /\ UNCHANGED <<srVars, nonSRVars>>

\* Line 768: self._cache[cache_key] = result.
SRWStoreResult(w) ==
    /\ srw_pc[w] = "store_result"
    /\ sr_cache' = DictPut(sr_cache, SRBatchKey(srw_task[w]), srw_result[w])
    /\ srw_pc' = [srw_pc EXCEPT ![w] = "store_timestamp"]
    /\ UNCHANGED <<sr_initialized, sr_timestamps, sr_now, sr_result, sr_hit,
                   sr_used, sr_params, sr_requests>>
    /\ UNCHANGED <<srb_mode, srb_next, srb_results, srw_task, srw_result,
                   srw_oldest>>
    /\ UNCHANGED nonSRVars

\* Line 769: self._cache_timestamps[cache_key] = datetime.utcnow().
SRWStoreTimestamp(w) ==
    /\ srw_pc[w] = "store_timestamp"
    /\ sr_timestamps' = DictPut(sr_timestamps, SRBatchKey(srw_task[w]), sr_now)
    /\ srw_pc' = [srw_pc EXCEPT ![w] = "check_size"]
    /\ UNCHANGED <<sr_initialized, sr_cache, sr_now, sr_result, sr_hit,
                   sr_used, sr_params, sr_requests>>
    /\ UNCHANGED <<srb_mode, srb_next, srb_results, srw_task, srw_result,
                   srw_oldest>>
    /\ UNCHANGED nonSRVars

\* A batch in which one raised call replaces every entry by an error entry.
SRWReturnAbort(w, raised) ==
    /\ srb_results' =
           IF raised
             THEN [i \in 1..SRBatchSize |-> SRErrorResult(SRBatchSymbols[i], "KeyError")]
             ELSE [srb_results EXCEPT ![srw_task[w]] = srw_result[w]]
    /\ srw_pc' = [srw_pc EXCEPT ![w] = "idle"]

\* The worker's call ended: future.result() gives the result, or raises and
\* the batch records an error entry (lines 562-572).
SRWReturn(w, raised) ==
    /\ srb_results' = [srb_results EXCEPT ![srw_task[w]] =
           IF raised THEN SRErrorResult(SRBatchSymbols[srw_task[w]], "KeyError")
           ELSE srw_result[w]]
    /\ srw_pc' = [srw_pc EXCEPT ![w] = "idle"]

\* Lines 772-773: the size test and the choice of oldest_key.
SRWCheckSize(w) ==
    /\ srw_pc[w] = "check_size"
    /\ IF Len(sr_cache) > SRCacheCapacity
         THEN /\ srw_oldest' = [srw_oldest EXCEPT ![w] = DictMinKey(sr_timestamps)]
              /\ srw_pc' = [srw_pc EXCEPT ![w] = "evict_result"]
              /\ UNCHANGED srb_results
         ELSE /\ SRWReturn(w, FALSE)
              /\ UNCHANGED srw_oldest
    /\ UNCHANGED <<srb_mode, srb_next, srw_task, srw_result>>
    /\ UNCHANGED <<srVars, nonSRVars>>

\* Line 774: del self._cache[oldest_key]; KeyError when the key is gone.
SRWEvictResult(w) ==
    /\ srw_pc[w] = "evict_result"
    /\ IF srw_oldest[w] \in DictKeys(sr_cache)
         THEN /\ sr_cache' = DictDel(sr_cache, srw_oldest[w])
              /\ srw_pc' = [srw_pc EXCEPT ![w] = "evict_timestamp"]
              /\ UNCHANGED srb_results
         ELSE /\ SRWReturn(w, TRUE)
              /\ UNCHANGED sr_cache
    /\ UNCHANGED <<sr_initialized, sr_timestamps, sr_now, sr_result, sr_hit,
                   sr_used, sr_params, sr_requests>>
    /\ UNCHANGED <<srb_mode, srb_next, srw_task, srw_result, srw_oldest>>
    /\ UNCHANGED nonSRVars

\* Line 775: del self._cache_timestamps[oldest_key]; KeyError when the key
\* is gone.
SRWEvictTimestamp(w) ==
    /\ srw_pc[w] = "evict_timestamp"
    /\ IF srw_oldest[w] \in DictKeys(sr_timestamps)
         THEN /\ sr_timestamps' = DictDel(sr_timestamps, srw_oldest[w])
              /\ SRWReturn(w, FALSE)
         ELSE /\ SRWReturn(w, TRUE)
              /\ UNCHANGED sr_timestamps
    /\ UNCHANGED <<sr_initialized, sr_cache, sr_now, sr_result, sr_hit,
                   sr_used, sr_params, sr_requests>>
    /\ UNCHANGED <<srb_mode, srb_next, srw_task, srw_result, srw_oldest>>
    /\ UNCHANGED nonSRVars

\* Lines 573-581: the sequential loop runs process() for the next symbol.
SRBSequential ==
    LET symbol == SRBatchSymbols[srb_next]
        key == SRBatchKey(srb_next)
        result == DetectLevels(symbol, SRDefaultMinStrength, SRDefaultMaxLevels,
                               "1d", SRBatchData(symbol))
        stored == SRCacheResult(sr_cache, sr_timestamps, key, result, sr_now)
    IN
    /\ SRBReady
    /\ srb_mode = "sequential"
    /\ srb_next <= Len(SRBatchSymbols)
    /\ srb_next' = srb_next + 1
    /\ IF SRIsCached(sr_cache, sr_timestamps, key, sr_now)
         THEN /\ srb_results' = [srb_results EXCEPT ![srb_next] = DictGet(sr_cache, key)]
              /\ UNCHANGED <<sr_cache, sr_timestamps>>
         ELSE /\ srb_results' = [srb_results EXCEPT ![srb_next] = result]
              /\ sr_cache' = stored[1]
              /\ sr_timestamps' = stored[2]
    /\ UNCHANGED <<sr_initialized, sr_now, sr_result, sr_hit, sr_used, sr_params, sr_requests>>
    /\ UNCHANGED <<srb_mode, srw_pc, srw_task, srw_result, srw_oldest>>
    /\ UNCHANGED nonSRVars

SRBInit ==
    /\ srb_mode = "none"
    /\ srb_next = 1
    /\ srb_results = [i \in 1..SRBatchSize |-> NoResult]
    /\ srw_pc = [w \in 1..SRWorkers |-> "idle"]
    /\ srw_task = [w \in 1..SRWorkers |-> 1]
    /\ srw_result = [w \in 1..SRWorkers |-> NoResult]
    /\ srw_oldest = [w \in 1..SRWorkers |-> <<>>]

NextSRBatch ==
    \/ SRInitialize
    \/ \E use_parallel \in BOOLEAN : SRBStart(use_parallel)
    \/ SRBSequential
    \/ \E w \in 1..SRWorkers : SRWSubmit(w)
    \/ \E w \in 1..SRWorkers : SRWProcess(w)
    \/ \E w \in 1..SRWorkers : SRWGetCached(w)
    \/ \E w \in 1..SRWorkers : SRWStoreResult(w)
    \/ \E w \in 1..SRWorkers : SRWStoreTimestamp(w)
    \/ \E w \in 1..SRWorkers : SRWCheckSize(w)
    \/ \E w \in 1..SRWorkers : SRWEvictResult(w)
    \/ \E w \in 1..SRWorkers : SRWEvictTimestamp(w)

-----------------------------------------------------------------------------
(* Collectors' local rate-limit trackers
   (agents/news_fetch_agent/collectors/{finnhub,newsapi,alpha_vantage}_collector.py).
   fetch_news counts the call before it sends the HTTP request, whatever the
   request then returns; get_api_usage_info reports the counters.  Both run
   the same lazy reset first.  Times are seconds since 00:00:00 UTC of day 0. *)

\* ---- bounds of the model ----
TrackerStart == 86310          \* the clock at construction: 23:58:30 of day 0
TrackerTickSeconds == 30       \* how far one clock step advances
MaxTrackerTicks == 4
MaxTrackerCalls == 6
\* _rate_limit_per_day of Alpha Vantage is 500 in the code
\* (alpha_vantage_collector.py:65); scaled so that the daily counter can come
\* within the per-minute limit of its end.
AVRateLimitPerDay == 6

\* ---- constants of the program ----
WindowSeconds == 60
SecondsPerDay == 86400
FinnhubRateLimitPerMinute == 60
NewsAPIRateLimitPerDay == 1000
AVRateLimitPerMinute == 5

None == 0 - 1

Collectors == {"Finnhub", "NewsAPI", "Alpha Vantage"}

\* now.date()
DateOf(t) == t \div SecondsPerDay

\* datetime.minute
MinuteOf(t) == (t \div WindowSeconds) % 60

\* if last is None: last = now / elif (now - last).total_seconds() >= 60:
\* calls = 0; last = now.  Returns <<calls, last>>.
ResetIfMinutePassed(calls, last, now) ==
    IF last = None THEN <<calls, now>>
    ELSE IF now - last >= WindowSeconds THEN <<0, now>>
    ELSE <<calls, last>>

\* if last is None: last = today / elif last != today: calls = 0; last = today.
ResetIfNewDay(calls, last, today) ==
    IF last = None THEN <<calls, today>>
    ELSE IF last # today THEN <<0, today>>
    ELSE <<calls, last>>

\* last.replace(second=0, microsecond=0)
FloorMinute(t) == t - (t % WindowSeconds)

\* next_reset.replace(minute=next_reset.minute + 1) raises ValueError when the
\* minute is 59.
ReplaceMinuteRaises(last, now) ==
    FloorMinute(last) <= now /\ MinuteOf(FloorMinute(last)) = 59

NextMinuteReset(last, now) ==
    IF FloorMinute(last) <= now THEN FloorMinute(last) + WindowSeconds
    ELSE FloorMinute(last)

\* datetime.combine(last + timedelta(days=1), datetime.min.time())
NextDayReset(last) == (last + 1) * SecondsPerDay

UsageRaised == [kind |-> "raised"]

\* Observer: the return before the one get_api_usage_info is about to make.
TrPrevOf(c) == IF tr_usage[c].kind = "usage" THEN tr_usage[c] ELSE tr_prev[c]

\* Tracking part of FinnhubCollector.fetch_news.
FinnhubFetchNews ==
    /\ tr_calls < MaxTrackerCalls
    /\ LET r == ResetIfMinutePassed(fh_calls_made, fh_last_reset_time, tr_now)
       IN  /\ fh_calls_made' = r[1] + 1
           /\ fh_last_reset_time' = r[2]
    /\ tr_calls' = tr_calls + 1
    /\ UNCHANGED <<tr_now, na_calls_made, na_last_reset_date,
                   av_calls_made_minute, av_calls_made_day,
                   av_last_minute_reset, av_last_day_reset, tr_usage, tr_prev,
                   tr_ticks>>
    /\ UNCHANGED <<rcVars, nonTrVars>>

FinnhubGetApiUsageInfo ==
    /\ tr_calls < MaxTrackerCalls
    /\ LET r == ResetIfMinutePassed(fh_calls_made, fh_last_reset_time, tr_now)
           calls_remaining == Max2(0, FinnhubRateLimitPerMinute - r[1])
       IN  /\ fh_calls_made' = r[1]
           /\ fh_last_reset_time' = r[2]
           /\ IF ReplaceMinuteRaises(r[2], tr_now)
                THEN /\ tr_usage' = [tr_usage EXCEPT !["Finnhub"] = UsageRaised]
                     /\ tr_prev' = [tr_prev EXCEPT !["Finnhub"] = TrPrevOf("Finnhub")]
                ELSE /\ tr_usage' = [tr_usage EXCEPT !["Finnhub"] =
                            [kind |-> "usage",
                             source |-> "Finnhub",
                             calls_made |-> r[1],
                             calls_remaining |-> calls_remaining,
                             reset_time |-> NextMinuteReset(r[2], tr_now),
                             \* observers: the window the report was made in,
                             \* and whether this call found it rolled over
                             window |-> <<r[2]>>,
                             rolled |-> (fh_last_reset_time # None
                                         /\ r[2] # fh_last_reset_time)]]
                     /\ tr_prev' = [tr_prev EXCEPT !["Finnhub"] = TrPrevOf("Finnhub")]
    /\ tr_calls' = tr_calls + 1
    /\ UNCHANGED <<tr_now, na_calls_made, na_last_reset_date,
                   av_calls_made_minute, av_calls_made_day,
                   av_last_minute_reset, av_last_day_reset, tr_ticks>>
    /\ UNCHANGED <<rcVars, nonTrVars>>

\* Tracking part of NewsAPICollector.fetch_news.
NewsAPIFetchNews ==
    /\ tr_calls < MaxTrackerCalls
    /\ LET r == ResetIfNewDay(na_calls_made, na_last_reset_date, DateOf(tr_now))
       IN  /\ na_calls_made' = r[1] + 1
           /\ na_last_reset_date' = r[2]
    /\ tr_calls' = tr_calls + 1
    /\ UNCHANGED <<tr_now, fh_calls_made, fh_last_reset_time,
                   av_calls_made_minute, av_calls_made_day,
                   av_last_minute_reset, av_last_day_reset, tr_usage, tr_prev,
                   tr_ticks>>
    /\ UNCHANGED <<rcVars, nonTrVars>>

NewsAPIGetApiUsageInfo ==
    /\ tr_calls < MaxTrackerCalls
    /\ LET r == ResetIfNewDay(na_calls_made, na_last_reset_date, DateOf(tr_now))
       IN  /\ na_calls_made' = r[1]
           /\ na_last_reset_date' = r[2]
           /\ tr_usage' = [tr_usage EXCEPT !["NewsAPI"] =
                  [kind |-> "usage",
                   source |-> "NewsAPI",
                   calls_made |-> r[1],
                   calls_remaining |-> Max2(0, NewsAPIRateLimitPerDay - r[1]),
                   reset_time |-> NextDayReset(r[2]),
                   window |-> <<r[2]>>,
                   rolled |-> (na_last_reset_date # None
                               /\ r[2] # na_last_reset_date)]]
           /\ tr_prev' = [tr_prev EXCEPT !["NewsAPI"] = TrPrevOf("NewsAPI")]
    /\ tr_calls' = tr_calls + 1
    /\ UNCHANGED <<tr_now, fh_calls_made, fh_last_reset_time,
                   av_calls_made_minute, av_calls_made_day,
                   av_last_minute_reset, av_last_day_reset, tr_ticks>>
    /\ UNCHANGED <<rcVars, nonTrVars>>

\* Tracking part of AlphaVantageCollector.fetch_news.
AlphaVantageFetchNews ==
    /\ tr_calls < MaxTrackerCalls
    /\ LET m == ResetIfMinutePassed(av_calls_made_minute, av_last_minute_reset, tr_now)
           d == ResetIfNewDay(av_calls_made_day, av_last_day_reset, DateOf(tr_now))
       IN  /\ av_calls_made_minute' = m[1] + 1
           /\ av_last_minute_reset' = m[2]
           /\ av_calls_made_day' = d[1] + 1
           /\ av_last_day_reset' = d[2]
    /\ tr_calls' = tr_calls + 1
    /\ UNCHANGED <<tr_now, fh_calls_made, fh_last_reset_time, na_calls_made,
                   na_last_reset_date, tr_usage, tr_prev, tr_ticks>>
    /\ UNCHANGED <<rcVars, nonTrVars>>

AlphaVantageGetApiUsageInfo ==
    /\ tr_calls < MaxTrackerCalls
    /\ LET m == ResetIfMinutePassed(av_calls_made_minute, av_last_minute_reset, tr_now)
           d == ResetIfNewDay(av_calls_made_day, av_last_day_reset, DateOf(tr_now))
           calls_remaining_minute == Max2(0, AVRateLimitPerMinute - m[1])
           calls_remaining_day == Max2(0, AVRateLimitPerDay - d[1])
       IN  /\ av_calls_made_minute' = m[1]
           /\ av_last_minute_reset' = m[2]
           /\ av_calls_made_day' = d[1]
           /\ av_last_day_reset' = d[2]
           /\ IF ReplaceMinuteRaises(m[2], tr_now)
                THEN /\ tr_usage' = [tr_usage EXCEPT !["Alpha Vantage"] = UsageRaised]
                     /\ tr_prev' = [tr_prev EXCEPT !["Alpha Vantage"] =
                                        TrPrevOf("Alpha Vantage")]
                ELSE /\ tr_usage' = [tr_usage EXCEPT !["Alpha Vantage"] =
                            [kind |-> "usage",
                             source |-> "Alpha Vantage",
                             calls_made |-> d[1],
                             calls_remaining |->
                                 Min2(calls_remaining_minute, calls_remaining_day),
                             reset_time_minute |-> NextMinuteReset(m[2], tr_now),
                             reset_time_day |-> NextDayReset(d[2]),
                             window |-> <<m[2], d[2]>>,
                             rolled |-> (av_last_minute_reset # None
                                         /\ m[2] # av_last_minute_reset)]]
                     /\ tr_prev' = [tr_prev EXCEPT !["Alpha Vantage"] =
                                        TrPrevOf("Alpha Vantage")]
    /\ tr_calls' = tr_calls + 1
    /\ UNCHANGED <<tr_now, fh_calls_made, fh_last_reset_time, na_calls_made,
                   na_last_reset_date, tr_ticks>>
    /\ UNCHANGED <<rcVars, nonTrVars>>

\* The clock advances.
TrTick ==
    /\ tr_ticks < MaxTrackerTicks
    /\ tr_now' = tr_now + TrackerTickSeconds
    /\ tr_ticks' = tr_ticks + 1
    /\ UNCHANGED <<fh_calls_made, fh_last_reset_time, na_calls_made,
                   na_last_reset_date, av_calls_made_minute, av_calls_made_day,
                   av_last_minute_reset, av_last_day_reset, tr_usage, tr_prev,
                   tr_calls>>
    /\ UNCHANGED <<rcVars, nonTrVars>>

TrackerInit ==
    /\ tr_now = TrackerStart
    /\ fh_calls_made = 0
    /\ fh_last_reset_time = None
    /\ na_calls_made = 0
    /\ na_last_reset_date = None
    /\ av_calls_made_minute = 0
    /\ av_calls_made_day = 0
    /\ av_last_minute_reset = None
    /\ av_last_day_reset = None
    /\ tr_usage = [c \in Collectors |-> NoResult]
    /\ tr_prev = [c \in Collectors |-> NoResult]
    /\ tr_calls = 0
    /\ tr_ticks = 0

NextTracker ==
    \/ FinnhubFetchNews
    \/ FinnhubGetApiUsageInfo
    \/ NewsAPIFetchNews
    \/ NewsAPIGetApiUsageInfo
    \/ AlphaVantageFetchNews
    \/ AlphaVantageGetApiUsageInfo
    \/ TrTick

-----------------------------------------------------------------------------
(* Concurrent requests inside FinnhubCollector.fetch_news, lines 124-136.
   Nothing serialises them: each numbered statement, and the load and the
   store of `self._calls_made += 1`, is a step other requests can interleave
   with. *)

\* ---- bounds of the model ----
RaceRequests == 2
MaxRaceFetches == 3
MaxRaceTicks == 2

\* now = datetime.now(timezone.utc)
RcBegin(t) ==
    /\ rc_pc[t] = "idle"
    /\ rc_started < MaxRaceFetches
    /\ rc_started' = rc_started + 1
    /\ rc_now' = [rc_now EXCEPT ![t] = tr_now]
    /\ rc_pc' = [rc_pc EXCEPT ![t] = "check"]
    /\ UNCHANGED <<rc_tmp, rc_log, trVars, nonTrVars>>

\* if self._last_reset_time is None: ... elif ... >= 60: ...
RcCheck(t) ==
    /\ rc_pc[t] = "check"
    /\ rc_pc' = [rc_pc EXCEPT ![t] =
                    IF fh_last_reset_time = None THEN "set_first"
                    ELSE IF rc_now[t] - fh_last_reset_time >= WindowSeconds
                           THEN "reset_calls"
                    ELSE "load"]
    /\ UNCHANGED <<rc_now, rc_tmp, rc_log, rc_started, trVars, nonTrVars>>

\* self._last_reset_time = now, of the branch taken on None (line 130) or
\* after the counter was zeroed (line 133)
RcStoreResetTime(t) ==
    /\ rc_pc[t] \in {"set_first", "reset_time"}
    /\ fh_last_reset_time' = rc_now[t]
    /\ rc_pc' = [rc_pc EXCEPT ![t] = "load"]
    /\ UNCHANGED <<rc_now, rc_tmp, rc_log, rc_started>>
    /\ UNCHANGED <<tr_now, fh_calls_made, na_calls_made,
                   na_last_reset_date, av_calls_made_minute, av_calls_made_day,
                   av_last_minute_reset, av_last_day_reset, tr_usage, tr_prev,
                   tr_calls, tr_ticks>>
    /\ UNCHANGED nonTrVars

\* self._calls_made = 0
RcResetCalls(t) ==
    /\ rc_pc[t] = "reset_calls"
    /\ fh_calls_made' = 0
    /\ rc_pc' = [rc_pc EXCEPT ![t] = "reset_time"]
    /\ UNCHANGED <<rc_now, rc_tmp, rc_log, rc_started>>
    /\ UNCHANGED <<tr_now, fh_last_reset_time, na_calls_made,
                   na_last_reset_date, av_calls_made_minute, av_calls_made_day,
                   av_last_minute_reset, av_last_day_reset, tr_usage, tr_prev,
                   tr_calls, tr_ticks>>
    /\ UNCHANGED nonTrVars

\* self._calls_made += 1: the load
RcLoad(t) ==
    /\ rc_pc[t] = "load"
    /\ rc_tmp' = [rc_tmp EXCEPT ![t] = fh_calls_made]
    /\ rc_pc' = [rc_pc EXCEPT ![t] = "store"]
    /\ UNCHANGED <<rc_now, rc_log, rc_started, trVars, nonTrVars>>

\* self._calls_made += 1: the store
RcStore(t) ==
    /\ rc_pc[t] = "store"
    /\ fh_calls_made' = rc_tmp[t] + 1
    /\ rc_log' = Append(rc_log, rc_now[t])
    /\ rc_pc' = [rc_pc EXCEPT ![t] = "idle"]
    /\ UNCHANGED <<rc_now, rc_tmp, rc_started>>
    /\ UNCHANGED <<tr_now, fh_last_reset_time, na_calls_made,
                   na_last_reset_date, av_calls_made_minute, av_calls_made_day,
                   av_last_minute_reset, av_last_day_reset, tr_usage, tr_prev,
                   tr_calls, tr_ticks>>
    /\ UNCHANGED nonTrVars

\* The clock advances while requests are in flight or between them.
RcTick ==
    /\ tr_ticks < MaxRaceTicks
    /\ tr_now' = tr_now + TrackerTickSeconds
    /\ tr_ticks' = tr_ticks + 1
    /\ UNCHANGED <<fh_calls_made, fh_last_reset_time, na_calls_made,
                   na_last_reset_date, av_calls_made_minute, av_calls_made_day,
                   av_last_minute_reset, av_last_day_reset, tr_usage, tr_prev,
                   tr_calls>>
    /\ UNCHANGED <<rcVars, nonTrVars>>

RaceInit ==
    /\ rc_pc = [t \in 1..RaceRequests |-> "idle"]
    /\ rc_now = [t \in 1..RaceRequests |-> TrackerStart]
    /\ rc_tmp = [t \in 1..RaceRequests |-> 0]
    /\ rc_log = <<>>
    /\ rc_started = 0

NextRace ==
    \/ \E t \in 1..RaceRequests : RcBegin(t)
    \/ \E t \in 1..RaceRequests : RcCheck(t)
    \/ \E t \in 1..RaceRequests : RcStoreResetTime(t)
    \/ \E t \in 1..RaceRequests : RcResetCalls(t)
    \/ \E t \in 1..RaceRequests : RcLoad(t)
    \/ \E t \in 1..RaceRequests : RcStore(t)
    \/ RcTick

-----------------------------------------------------------------------------
(* retry_with_backoff (agents/news_fetch_agent/utils/retry.py), the decorator
   the collectors put on _make_request_with_retry.  Delays are in seconds. *)

\* The arguments FinnhubCollector passes (finnhub_collector.py:186-192).
CollectorMaxRetries == 3
CollectorInitialDelay == 1
CollectorBackoffFactor == 2
CollectorMaxDelay == 60

CollectorRetryConfig ==
    [max_retries |-> CollectorMaxRetries,
     initial_delay |-> CollectorInitialDelay,
     backoff_factor |-> CollectorBackoffFactor,
     max_delay |-> CollectorMaxDelay]

\* Arguments the decorator is exercised with: the collectors' and others that
\* reach the max_delay cap or leave no retry.
RetryConfigs ==
    [max_retries : 0..CollectorMaxRetries,
     initial_delay : {CollectorInitialDelay, 20, 70},
     backoff_factor : {CollectorBackoffFactor, 3},
     max_delay : {CollectorMaxDelay}]

\* How one call of the wrapped function ends: it returns, raises one of
\* `exceptions` (RequestException, Timeout, ConnectionError), or raises
\* something else.
TryOutcomes == {"ok", "retriable", "other"}

\* wrapper(), lines 47-49
RtCall(cfg) ==
    /\ rt_pc = "idle"
    /\ rt_cfg' = cfg
    /\ rt_delay' = cfg.initial_delay
    /\ rt_attempt' = 0
    /\ rt_pc' = "try"
    /\ UNCHANGED <<rt_sleeps, rt_tries, rt_outcome>>
    /\ UNCHANGED nonRtVars

\* Mutant: the loop body retrying after the last attempt as well.
RtAttemptNoLimit(o) ==
    /\ rt_pc = "try"
    /\ rt_tries' = Append(rt_tries, o)
    /\ IF o = "ok"
         THEN /\ rt_pc' = "done" /\ rt_outcome' = "returned"
              /\ UNCHANGED <<rt_attempt, rt_delay, rt_sleeps>>
       ELSE IF o = "other"
         THEN /\ rt_pc' = "done" /\ rt_outcome' = "raised"
              /\ UNCHANGED <<rt_attempt, rt_delay, rt_sleeps>>
       ELSE IF rt_attempt <= rt_cfg.max_retries
         THEN /\ rt_sleeps' = Append(rt_sleeps, Min2(rt_delay, rt_cfg.max_delay))
              /\ rt_delay' = rt_delay * rt_cfg.backoff_factor
              /\ rt_attempt' = rt_attempt + 1
              /\ UNCHANGED <<rt_pc, rt_outcome>>
         ELSE /\ rt_pc' = "done" /\ rt_outcome' = "raised"
              /\ UNCHANGED <<rt_attempt, rt_delay, rt_sleeps>>
    /\ UNCHANGED rt_cfg
    /\ UNCHANGED nonRtVars

\* One iteration of `for attempt in range(max_retries + 1)`, lines 51-84.
RtAttempt(o) ==
    /\ rt_pc = "try"
    /\ rt_tries' = Append(rt_tries, o)
    /\ IF o = "ok"
         THEN /\ rt_pc' = "done" /\ rt_outcome' = "returned"
              /\ UNCHANGED <<rt_attempt, rt_delay, rt_sleeps>>
       ELSE IF o = "other"
         \* not in `exceptions`: leaves the wrapper at once
         THEN /\ rt_pc' = "done" /\ rt_outcome' = "raised"
              /\ UNCHANGED <<rt_attempt, rt_delay, rt_sleeps>>
       ELSE IF rt_attempt < rt_cfg.max_retries
         THEN /\ rt_sleeps' = Append(rt_sleeps, Min2(rt_delay, rt_cfg.max_delay))
              /\ rt_delay' = rt_delay * rt_cfg.backoff_factor
              /\ rt_attempt' = rt_attempt + 1
              /\ UNCHANGED <<rt_pc, rt_outcome>>
         ELSE /\ rt_pc' = "done" /\ rt_outcome' = "raised"
              /\ UNCHANGED <<rt_attempt, rt_delay, rt_sleeps>>
    /\ UNCHANGED rt_cfg
    /\ UNCHANGED nonRtVars

RetryInit ==
    /\ rt_pc = "idle"
    /\ rt_cfg = CollectorRetryConfig
    /\ rt_attempt = 0
    /\ rt_delay = CollectorInitialDelay
    /\ rt_sleeps = <<>>
    /\ rt_tries = <<>>
    /\ rt_outcome = "none"

NextRetry ==
    \/ \E cfg \in RetryConfigs : RtCall(cfg)
    \/ \E o \in TryOutcomes : RtAttempt(o)

-----------------------------------------------------------------------------
(* The levels endpoints: GET /{symbol}, POST /detect, POST /batch *)

\* Bound of the endpoint model.
MaxApiRequests == 2

HttpOk == 200
HttpBadRequest == 400
HttpServerError == 500

\* valid_timeframes, lines 128, 217 and 279.
ValidTimeframes ==
    <<"1m", "5m", "15m", "30m", "1h", "4h", "1d", "1w", "1mo", "1y">>

\* The timeframes a client sends.
ApiTimeframes == Range(ValidTimeframes) \cup {"2h", "1D"}

ApiEndpoints == {"get_levels", "detect_levels", "detect_levels_batch"}

\* How _get_agent and agent.process end inside the handler's try block.
ApiAgentOutcomes == {"ok", "raise"}

\* `except Exception` of lines 187-196, 249-258 and 318-327: whatever the try
\* block raises, an HTTPException included, is answered with status 500.
ApiTryBlock(raised) == IF raised THEN HttpServerError ELSE HttpOk

\* get_levels, lines 124-196: the timeframe is validated before the try
\* block.
GetLevels(timeframe, agent) ==
    IF timeframe \notin Range(ValidTimeframes)
      THEN HttpBadRequest
      ELSE ApiTryBlock(agent = "raise")

\* detect_levels, lines 210-258: the timeframe is validated inside the try
\* block, after _get_agent.
DetectLevelsEndpoint(timeframe, agent) ==
    ApiTryBlock(agent = "raise" \/ timeframe \notin Range(ValidTimeframes))

\* detect_levels_batch, lines 272-327: as detect_levels.
DetectLevelsBatchEndpoint(timeframe, agent) ==
    ApiTryBlock(agent = "raise" \/ timeframe \notin Range(ValidTimeframes))

\* A request arrives at one of the three endpoints.
ApiReceive(endpoint, timeframe) ==
    /\ api_pc = "idle"
    /\ api_count < MaxApiRequests
    /\ api_count' = api_count + 1
    /\ api_request' = [endpoint |-> endpoint, timeframe |-> timeframe]
    /\ api_pc' = "handle"
    /\ UNCHANGED api_status
    /\ UNCHANGED nonApiVars

ApiGetLevels(agent) ==
    /\ api_pc = "handle"
    /\ api_request.endpoint = "get_levels"
    /\ api_status' = GetLevels(api_request.timeframe, agent)
    /\ api_pc' = "idle"
    /\ UNCHANGED <<api_request, api_count>>
    /\ UNCHANGED nonApiVars

ApiDetectLevels(agent) ==
    /\ api_pc = "handle"
    /\ api_request.endpoint = "detect_levels"
    /\ api_status' = DetectLevelsEndpoint(api_request.timeframe, agent)
    /\ api_pc' = "idle"
    /\ UNCHANGED <<api_request, api_count>>
    /\ UNCHANGED nonApiVars

ApiDetectLevelsBatch(agent) ==
    /\ api_pc = "handle"
    /\ api_request.endpoint = "detect_levels_batch"
    /\ api_status' = DetectLevelsBatchEndpoint(api_request.timeframe, agent)
    /\ api_pc' = "idle"
    /\ UNCHANGED <<api_request, api_count>>
    /\ UNCHANGED nonApiVars

ApiInit ==
    /\ api_pc = "idle"
    /\ api_request = [endpoint |-> "none", timeframe |-> "1d"]
    /\ api_status = 0
    /\ api_count = 0

NextApi ==
    \/ \E endpoint \in ApiEndpoints, timeframe \in ApiTimeframes :
          ApiReceive(endpoint, timeframe)
    \/ \E agent \in ApiAgentOutcomes : ApiGetLevels(agent)
    \/ \E agent \in ApiAgentOutcomes : ApiDetectLevels(agent)
    \/ \E agent \in ApiAgentOutcomes : ApiDetectLevelsBatch(agent)

-----------------------------------------------------------------------------
(* DuplicateFilter with prefer_source *)

\* Bound of the filter model: the longest list handed to remove_duplicates.
MaxDfLen == 3

\* Articles of three sources.  d1 and d3 share their url, d2 and d3 have
\* similar titles, d1 and d2 have nothing in common; d4 stands alone.
DfPool ==
    { [id |-> "d1", url |-> "x", title |-> 1, source |-> "Finnhub"],
      [id |-> "d2", url |-> "y", title |-> 5, source |-> "NewsAPI"],
      [id |-> "d3", url |-> "x", title |-> 5, source |-> "Reuters"],
      [id |-> "d4", url |-> "z", title |-> 9, source |-> "Reuters"] }

DfLists == SeqsUpTo(DfPool, MaxDfLen)

\* prefer_source of the configuration; "" stands for None.
DfPreferSources == {"", "Reuters", "NewsAPI"}

\* Lines 152-158: the first kept article that `article` duplicates, 0 when
\* there is none.
FirstDuplicate(article, unique) ==
    IF \E j \in 1..Len(unique) : IsDuplicate(article, unique[j])
      THEN CHOOSE j \in 1..Len(unique) :
               /\ IsDuplicate(article, unique[j])
               /\ \A k \in 1..(j - 1) : ~IsDuplicate(article, unique[k])
      ELSE 0

\* The loop of lines 146-163 on the articles not yet visited.
RECURSIVE RemoveDuplicatesLoop(_, _, _)
RemoveDuplicatesLoop(unique, rest, prefer_source) ==
    IF rest = <<>> THEN unique
    ELSE LET article == Head(rest)
             j == FirstDuplicate(article, unique)
         IN IF j = 0
              THEN RemoveDuplicatesLoop(Append(unique, article), Tail(rest), prefer_source)
            ELSE IF prefer_source # "" /\ article.source = prefer_source
              THEN RemoveDuplicatesLoop([unique EXCEPT ![j] = article], Tail(rest),
                                        prefer_source)
            ELSE RemoveDuplicatesLoop(unique, Tail(rest), prefer_source)

\* remove_duplicates, lines 112-165.
RemoveDuplicatesPrefer(articles, prefer_source) ==
    RemoveDuplicatesLoop(<<>>, articles, prefer_source)

\* __init__, lines 46-49.
DfConstruct(prefer_source) ==
    /\ df_pc = "new"
    /\ df_pc' = "ready"
    /\ df_prefer_source' = prefer_source
    /\ UNCHANGED <<df_in, df_out, df_again>>
    /\ UNCHANGED nonDfVars

\* remove_duplicates on a list of the caller.
DfRemoveDuplicates(articles) ==
    /\ df_pc = "ready"
    /\ df_in' = articles
    /\ df_out' = RemoveDuplicatesPrefer(articles, df_prefer_source)
    /\ df_again' = FALSE
    /\ UNCHANGED <<df_pc, df_prefer_source>>
    /\ UNCHANGED nonDfVars

\* remove_duplicates on the list the previous call returned.
DfRemoveDuplicatesAgain ==
    /\ df_pc = "ready"
    /\ df_in # <<>>
    /\ ~df_again
    /\ df_in' = df_out
    /\ df_out' = RemoveDuplicatesPrefer(df_out, df_prefer_source)
    /\ df_again' = TRUE
    /\ UNCHANGED <<df_pc, df_prefer_source>>
    /\ UNCHANGED nonDfVars

DfInit ==
    /\ df_pc = "new"
    /\ df_prefer_source = ""
    /\ df_in = <<>>
    /\ df_out = <<>>
    /\ df_again = FALSE

NextDf ==
    \/ \E prefer_source \in DfPreferSources : DfConstruct(prefer_source)
    \/ \E articles \in DfLists : DfRemoveDuplicates(articles)
    \/ DfRemoveDuplicatesAgain

-----------------------------------------------------------------------------
(* StrengthCalculator.calculate_breakout_probability *)

\* Bound of the breakout model: the number of levels in one call.
MaxBpLevels == 2

\* Factors are kept in thousandths and the probability in hundredths of a
\* percent; the float quotient of line 184 is truncated to that grid.
BpAbs(x) == IF x < 0 THEN 0 - x ELSE x

\* Lines 184-185.
BpDistanceFactor(level_price, current_price) ==
    Max2(0, Min2(1000, 1000 - ((10000 * BpAbs(current_price - level_price)) \div level_price)))

\* Line 190.
BpStrengthFactor(strength) == 1000 - 10 * strength

\* Lines 195-210, in tenths.
DirectionFactor(level_type, level_price, current_price) ==
    IF level_type = "support"
      THEN (IF current_price < level_price THEN 10 ELSE 2)
      ELSE IF level_type = "resistance"
        THEN (IF current_price > level_price THEN 10 ELSE 3)
        ELSE 5

\* Lines 175-229.
CalculateBreakoutProbability(level, current_price) ==
    IF level.price = 0 THEN 0
    ELSE Max2(0, Min2(10000,
           BpDistanceFactor(level.price, current_price) * 4
           + BpStrengthFactor(level.strength) * 3
           + DirectionFactor(level.type, level.price, current_price) * 100 * 3))

BpPool == [type : {"support", "resistance", "unknown"}, price : {0, 90, 110},
           strength : {40, 80}]

BpLevelLists == UNION {[1..n -> BpPool] : n \in 1..MaxBpLevels}

BpCurrentPrices == {100}

\* calculate_breakout_probabilities(levels, current_price), lines 246-253.
CalculateBreakoutProbabilities(levels, current_price) ==
    /\ bp_pc = "idle"
    /\ bp_levels' = [i \in 1..Len(levels) |->
           [type |-> levels[i].type, price |-> levels[i].price,
            strength |-> levels[i].strength,
            breakout_probability |-> CalculateBreakoutProbability(levels[i], current_price)]]
    /\ bp_direction' = [i \in 1..Len(levels) |->
           IF levels[i].price = 0 THEN 0
           ELSE DirectionFactor(levels[i].type, levels[i].price, current_price)]
    /\ bp_current_price' = current_price
    /\ bp_pc' = "done"
    /\ UNCHANGED nonBpVars

\* The caller takes the levels; the calculator is ready for the next call.
BpReturn ==
    /\ bp_pc = "done"
    /\ bp_pc' = "idle"
    /\ bp_levels' = <<>>
    /\ bp_direction' = <<>>
    /\ UNCHANGED bp_current_price
    /\ UNCHANGED nonBpVars

BpInit ==
    /\ bp_pc = "idle"
    /\ bp_levels = <<>>
    /\ bp_current_price = 0
    /\ bp_direction = <<>>

NextBp ==
    \/ \E levels \in BpLevelLists, current_price \in BpCurrentPrices :
          CalculateBreakoutProbabilities(levels, current_price)
    \/ BpReturn

-----------------------------------------------------------------------------
(* Specifications *)

Init ==
    /\ NewsInit
    /\ LLMInit
    /\ AggInit
    /\ PipeInit
    /\ SRInit
    /\ SRBInit
    /\ TrackerInit
    /\ RaceInit
    /\ RetryInit
    /\ ApiInit
    /\ DfInit
    /\ BpInit

SpecNews == Init /\ [][NextNews]_vars

\* process() is a sequential call: once it is in the expansion loop it keeps
\* executing the loop's statements.  The requests of this specification differ in what the
\* expansion loop depends on: the collectors, the limit and what each fetch
\* returns.
NextNewsLoop ==
    \/ \E keys \in SUBSET Range(RealCollectors) : NFInitialize(FALSE, keys)
    \/ \E limit \in NewsLimits, ok \in BOOLEAN :
          NFBegin(limit, DefaultMinRelevanceTenths, ok)
    \/ \E o \in FetchOutcomes : NFFetchInitial(o, TRUE)
    \/ NFLoopCheck
    \/ \E o \in FetchOutcomes : NFRefetch(o)
    \/ NFFinish

SpecNewsFair ==
    /\ Init
    /\ [][NextNewsLoop]_vars
    /\ WF_vars(NFLoopCheck)
    /\ WF_vars(\E o \in FetchOutcomes : NFRefetch(o))

SpecLLM == Init /\ [][NextLLM]_vars

\* Requests that all use the cache of an agent whose embedding backend loads:
\* the runs in which sentiments get stored and looked up again.
NextLLMCache ==
    \/ LLMInitialize(TRUE, TRUE)
    \/ \E symbol \in Symbols, articles \in LLMArticleLists :
          LLMBegin(symbol, articles, TRUE, "1d")
    \/ \E o \in LLMOutcomes : LLMAnalyze(o)

SpecLLMCache == Init /\ [][NextLLMCache]_vars

SpecAgg == Init /\ [][NextAgg]_vars

SpecPipeline == Init /\ [][NextPipeline]_vars

SpecSR == Init /\ [][NextSR]_vars

SpecSRBatch == Init /\ [][NextSRBatch]_vars

SpecSRLevels == Init /\ [][NextSRLevels]_vars

SpecSRNearest == Init /\ [][NextSRNearest]_vars

SpecSRRouter == Init /\ [][NextSRRouter]_vars

SpecSRProject == Init /\ [][NextSRProject]_vars

SpecTracker == Init /\ [][NextTracker]_vars

SpecRace == Init /\ [][NextRace]_vars

\* Provider responses in which items come without an id: normalize_finnhub
\* gives such an article the id "" (data_normalizer.py:79).  The titles of
\* these articles and of the pool's first article are mutually dissimilar.
NoIdArticles ==
    <<[id |-> "", url |-> "v1", title |-> 5, rel |-> 8, pub |-> 4],
      [id |-> "", url |-> "v2", title |-> 9, rel |-> 7, pub |-> 3]>>

NoIdFeeds ==
    {<<>>, <<NoIdArticles[1]>>, <<NoIdArticles[2]>>, NoIdArticles,
     <<PoolArticle(PoolOrder[1])>>}

NoIdFetchOutcomes == {[raised |-> FALSE, articles |-> f] : f \in NoIdFeeds}

NextNewsIds ==
    \/ \E keys \in SUBSET Range(RealCollectors) : NFInitialize(FALSE, keys)
    \/ \E limit \in NewsLimits : NFBegin(limit, DefaultMinRelevanceTenths, TRUE)
    \/ \E o \in NoIdFetchOutcomes : NFFetchInitial(o, TRUE)
    \/ NFLoopCheck
    \/ \E o \in NoIdFetchOutcomes : NFRefetch(o)
    \/ NFFinish

SpecNewsIds == Init /\ [][NextNewsIds]_vars

SpecRetry == Init /\ [][NextRetry]_vars

SpecApi == Init /\ [][NextApi]_vars

SpecDf == Init /\ [][NextDf]_vars

SpecBp == Init /\ [][NextBp]_vars

-----------------------------------------------------------------------------
(* Claims about NewsFetchAgent *)

\* The request reached the collectors: it is over and every configured
\* collector was called.
NFRequestRan ==
    /\ nf_pc = "done"
    /\ nf_collectors # <<>>
    /\ \A c \in Range(nf_collectors) : nf_calls[c] >= 1

\* C1: when a collector's fetch raised (initial fetch or re-fetch), the
\* finished request still has status success, every configured collector was
\* called in the initial round and in every expansion round, and every article
\* a non-raising fetch returned was taken into all_articles.
C1_CollectorFailureIsolated ==
    (nf_pc = "done" /\ nf_raised # {}) =>
        /\ nf_result.status = "success"
        /\ \A c \in Range(nf_collectors) : nf_calls[c] = 1 + nf_expansion
        /\ nf_returned \subseteq Range(nf_all)
        /\ nf_result.raw_articles_count = Min2(nf_limit, Len(nf_all))

\* C1 witness: one of several collectors raised and the others' articles came
\* through to a successful result.
C1_Witness ==
    /\ nf_pc = "done"
    /\ Len(nf_collectors) >= 2
    /\ nf_raised # {}
    /\ nf_raised # Range(nf_collectors)
    /\ nf_result.status = "success"
    /\ nf_result.total_count >= 1

\* C5: a request whose collectors were all called and yielded no article at
\* all ends, after the window expansions are used up, with status success,
\* total_count 0 and an empty article list.
C5_ZeroArticlesIsSuccess ==
    (NFRequestRan /\ nf_all = <<>>) =>
        /\ nf_result.status = "success"
        /\ nf_result.total_count = 0
        /\ nf_result.articles = <<>>
        /\ nf_expansion = MaxExpansions

\* C5 witness: a finished request with no article after both expansions.
C5_Witness ==
    /\ NFRequestRan
    /\ nf_all = <<>>
    /\ nf_expansion = MaxExpansions
    /\ nf_result.total_count = 0

\* C24: API usage is always captured: for every configured collector the
\* api_usage list of the fetch result holds that collector's usage entry,
\* whether its fetch succeeded or failed.
C24_ApiUsageAlwaysCaptured ==
    (NFRequestRan /\ nf_result.status = "success")
    => \A i \in 1..Len(nf_collectors) :
          \E j \in 1..Len(nf_result.api_usage) :
             nf_result.api_usage[j] = nf_collectors[i]

-----------------------------------------------------------------------------
(* Claims about LLMSentimentAgent *)

\* C2: when the LLM call fails on an article, the invocation returns status
\* error and the returned sentiment_scores are the scores collected from the
\* articles processed before the failure.
C2_FailureKeepsEarlierScores ==
    (llm_pc = "done" /\ llm_failure = "llm") =>
        /\ llm_result.status = "error"
        /\ llm_result.sentiment_scores = llm_scores

\* C7: with the embedding backend unavailable, a process() call asked to use
\* the cache never sees the unavailability: the cache is disabled and, unless
\* the LLM itself fails, the call completes with status success.
C7_BackendUnavailableNeverSurfaces ==
    (/\ llm_pc = "done"
     /\ ~llm_backend_ok
     /\ llm_initialized
     /\ llm_use_cache
     /\ llm_articles # <<>>
     /\ llm_failure # "llm") =>
        /\ llm_failure = "none"
        /\ llm_result.status = "success"
        /\ ~llm_enable_cache

-----------------------------------------------------------------------------
(* Claims about SentimentAggregator *)

\* C6: process() called on an initialised aggregator with zero sentiment
\* scores returns status success with neutral defaults: aggregated sentiment
\* 0, label neutral, impact Low, news_count 0.
C6_ZeroScoresIsNeutralSuccess ==
    (/\ agg_requests > 0
     /\ agg_initialized
     /\ agg_result # AggErrorNotInitialized
     /\ agg_params.sentiment_scores = <<>>) =>
        /\ agg_result.status = "success"
        /\ agg_result.aggregated_sentiment = 0
        /\ agg_result.sentiment_label = "neutral"
        /\ agg_result.impact = "Low"
        /\ agg_result.news_count = 0

-----------------------------------------------------------------------------
(* Claims about the /visualize pipeline *)

\* C4: a step that ended with status error is the last step of the response
\* (no later step was run), and the finished response of such a request has
\* top-level status "error".
C4_StepErrorStopsPipeline ==
    \A i \in 1..Len(pipe_steps) :
        pipe_steps[i].status = "error" =>
            /\ i = Len(pipe_steps)
            /\ pipe_pc = "done" => pipe_status = "error"

-----------------------------------------------------------------------------
(* Claims about every agent's process() *)

HasStatus(r) ==
    /\ "status" \in DOMAIN r
    /\ r.status \in {"success", "error"}

\* C3: every dictionary returned by process() of NewsFetchAgent,
\* LLMSentimentAgent, SentimentAggregator and SupportResistanceAgent carries
\* a status field that is either success or error.
C3_EveryResultHasStatus ==
    \A r \in {nf_result, llm_result, agg_result, sr_result} :
        r # NoResult => HasStatus(r)

-----------------------------------------------------------------------------
(* Claims about the parallel batch *)

\* A worker is between the first and the last line of _cache_result.
InCacheResult(w) ==
    srw_pc[w] \in {"store_timestamp", "check_size", "evict_result", "evict_timestamp"}

\* C9: with process() running on several pool threads, whenever no thread is
\* inside _cache_result the cache and the timestamp map have the same key
\* set, and no call failed with KeyError because another thread had already
\* removed the entry it was evicting.
C9_CacheUpdateIsExclusive ==
    /\ (\A w \in 1..SRWorkers : ~InCacheResult(w)) =>
           DictKeys(sr_cache) = DictKeys(sr_timestamps)
    /\ \A i \in 1..SRBatchSize :
           srb_results[i] # SRErrorResult(SRBatchSymbols[i], "KeyError")

-----------------------------------------------------------------------------
(* Claims about the collectors' rate-limit trackers *)

\* C8: when several requests run the same collector's fetch concurrently, the
\* reset-window check and the increment behave as one critical section: once
\* every request has finished, calls_made equals the number of fetches made
\* inside the current window (no increment is lost, none is wiped by another
\* request's reset).
FetchesInWindow ==
    Cardinality({i \in DOMAIN rc_log : rc_log[i] >= fh_last_reset_time})

C8_CounterCountsEveryFetch ==
    (\A t \in 1..RaceRequests : rc_pc[t] = "idle")
        => fh_calls_made = FetchesInWindow

\* C10: for a collector's tracker, the reported calls_remaining does not
\* increase between two consecutive reports made inside the same reset window,
\* and a report that finds the window rolled over shows the configured limit
\* again.
ConfiguredLimit(c) ==
    CASE c = "Finnhub" -> FinnhubRateLimitPerMinute
      [] c = "NewsAPI" -> NewsAPIRateLimitPerDay
      [] c = "Alpha Vantage" -> AVRateLimitPerMinute

C10_RemainingFollowsWindow ==
    \A c \in Collectors :
        tr_usage[c].kind = "usage" =>
            /\ (tr_prev[c].kind = "usage"
                    /\ tr_usage[c].window = tr_prev[c].window)
                   => tr_usage[c].calls_remaining <= tr_prev[c].calls_remaining
            /\ tr_usage[c].rolled
                   => tr_usage[c].calls_remaining = ConfiguredLimit(c)

\* C29: a collector issues no HTTP request while its tracked calls_remaining
\* of the current window is 0: once the limit is reached a further fetch in
\* the window is refused.  Every fetch_news counts the call and then sends the
\* request, so the counters are the requests sent in the window, and they
\* never pass the limits.
C29_NoRequestBeyondLimit ==
    /\ fh_calls_made <= FinnhubRateLimitPerMinute
    /\ na_calls_made <= NewsAPIRateLimitPerDay
    /\ av_calls_made_minute <= AVRateLimitPerMinute
    /\ av_calls_made_day <= AVRateLimitPerDay

-----------------------------------------------------------------------------
(* Claims about the expansion loop of NewsFetchAgent.process *)

NFInExpansionLoop == nf_pc \in {"loop", "refetch"}

\* C11: within one process() call the window is expanded, and the collectors
\* called again, only while fewer than min(limit, 10) articles are merged and
\* at most MaxExpansions = 2 times; so no collector is called more than
\* expansions + 1 <= 3 times, and the loop, once entered, is left.
C11_ExpansionBoundedAndTerminates ==
    /\ [](/\ nf_expansion <= MaxExpansions
          /\ \A c \in DOMAIN nf_calls :
                 nf_calls[c] <= nf_expansion + 1 /\ nf_calls[c] <= 3)
    /\ [][nf_expansion' > nf_expansion
            => Len(nf_all) < Min2(nf_limit, MinArticlesCap)]_vars
    /\ (NFInExpansionLoop ~> nf_pc \in {"finish", "done"})

\* A request that expanded twice and called some collector three times.
C11_Witness ==
    /\ nf_pc = "done"
    /\ nf_expansion = MaxExpansions
    /\ \E c \in DOMAIN nf_calls : nf_calls[c] = 3

-----------------------------------------------------------------------------
(* Claims about retry_with_backoff *)

IsPrefixOf(p, q) == Len(p) <= Len(q) /\ p = SubSeq(q, 1, Len(p))

\* C12: with the collectors' arguments a request is attempted at most
\* 1 + 3 = 4 times, the waits between the attempts are 1 s, 2 s and 4 s, no
\* wait exceeds max_delay = 60 s, and when the last attempt fails with a
\* connection/timeout error too the error leaves the wrapper.
C12_RetryBoundedBackoff ==
    /\ \A i \in 1..Len(rt_sleeps) : rt_sleeps[i] <= rt_cfg.max_delay
    /\ rt_cfg = CollectorRetryConfig =>
          /\ Len(rt_tries) <= 4
          /\ IsPrefixOf(rt_sleeps, <<1, 2, 4>>)
          /\ Len(rt_sleeps) = Cardinality({i \in 1..Len(rt_tries) :
                                             i < 4 /\ rt_tries[i] = "retriable"})
          /\ (Len(rt_tries) = 4 /\ rt_tries[4] = "retriable")
                 => (rt_pc = "done" /\ rt_outcome = "raised")

\* Four attempts that all failed with a connection error.
C12_Witness ==
    /\ rt_cfg = CollectorRetryConfig
    /\ rt_tries = <<"retriable", "retriable", "retriable", "retriable">>
    /\ rt_sleeps = <<1, 2, 4>>
    /\ rt_outcome = "raised"

-----------------------------------------------------------------------------
(* Claims about the semantic cache *)

\* The call analyze_sentiment is about to make uses the cache, and the store
\* holds an entry whose embedding is that of the article.
IdenticalStored(i) ==
    /\ llm_pc = "analyze"
    /\ llm_idx <= Len(llm_articles)
    /\ llm_use_cache /\ llm_enable_cache
    /\ i \in 1..Len(llm_store)
    /\ llm_store[i].embedding = Embedding(llm_articles[llm_idx])

\* C13: once a sentiment is stored, analyze_sentiment with use_cache on an
\* article with the same embedding returns cached = TRUE with the stored
\* score, label and confidence, and makes no LLM call.
C13_IdenticalEmbeddingIsCacheHit ==
    [][\A i \in 1..Len(llm_store) :
          IdenticalStored(i) =>
              /\ llm_last' = SentimentEntry(llm_articles[llm_idx], llm_symbol,
                                            llm_store[i].metadata, TRUE)
              /\ llm_client_calls' = llm_client_calls]_vars

\* A hit for an article other than the one whose sentiment was stored.
C13_Witness ==
    /\ llm_last # NoResult
    /\ llm_last.cached
    /\ \E i \in 1..Len(llm_store) :
          /\ llm_store[i].id # llm_last.article_id
          /\ \E a \in LLMArticlePool :
                a.id = llm_last.article_id /\ Embedding(a) = llm_store[i].embedding
          /\ llm_store[i].metadata.sentiment_score = llm_last.sentiment_score

\* C30: a sentiment stored in the semantic cache under one symbol is returned
\* only for lookups with that symbol: when analyze_sentiment answers from the
\* cache, the entry get_similar took the sentiment from was stored under the
\* symbol of the lookup.
C30_HitOnlyForSameSymbol ==
    [][(/\ llm_pc = "analyze"
        /\ llm_idx' = llm_idx + 1
        /\ llm_last'.cached)
       => GetSimilar(llm_store, llm_articles[llm_idx], llm_symbol)[1].metadata.symbol
             = llm_symbol]_vars

-----------------------------------------------------------------------------
(* Claims about the support/resistance result cache *)

\* C14: a process() call with caching enabled that finds its cache key stored
\* less than one hour ago returns the stored result without running
\* detection: the call that passed the freshness test of _is_cached ends by
\* handing back the entry the cache holds for its key.
C14_FreshEntryIsReturned ==
    [][\A w \in 1..SRWorkers :
          (srw_pc[w] = "get_cached" /\ srw_pc'[w] # "get_cached") =>
              /\ SRBatchKey(srw_task[w]) \in DictKeys(sr_cache)
              /\ srb_results'[srw_task[w]] =
                     DictGet(sr_cache, SRBatchKey(srw_task[w]))]_vars

\* C15: after every completed insertion the result cache holds at most its
\* capacity (100 entries), an insertion evicts at most one entry, and the
\* evicted entry is the least recently used one.
C15_CacheBoundedLRU ==
    /\ [](Len(sr_cache) <= SRCacheCapacity)
    /\ [][/\ Cardinality(DictKeys(sr_cache) \ DictKeys(sr_cache')) <= 1
          /\ \A k \in DictKeys(sr_cache) \ DictKeys(sr_cache') : k = sr_used[1]]_vars

-----------------------------------------------------------------------------
(* Claims about detect_levels_batch *)

\* The batch has returned: every symbol was handed out and processed.
SRBDone ==
    /\ srb_mode # "none"
    /\ srb_next > Len(SRBatchSymbols)
    /\ \A w \in 1..SRWorkers : srw_pc[w] = "idle"

\* The keys of the dictionary detect_levels_batch returns.
SRBResultSymbols ==
    {SRBatchSymbols[i] : i \in {j \in 1..SRBatchSize : srb_results[j] # NoResult}}

\* What process() gives for the i-th symbol when nothing raises.
SRBOwnResult(i) ==
    DetectLevels(SRBatchSymbols[i], SRDefaultMinStrength, SRDefaultMaxLevels,
                 "1d", SRBatchData(SRBatchSymbols[i]))

\* Every entry is for its own symbol: the result of its own detection, or the
\* error entry of the exception its own call raised.
SRBEntriesAreOwn ==
    \A i \in 1..SRBatchSize :
        srb_results[i] \in {NoResult, SRBOwnResult(i),
                            SRErrorResult(SRBatchSymbols[i], "KeyError")}

\* One step writes at most one entry of the result.
SRBOneEntryPerStep ==
    Cardinality({i \in 1..SRBatchSize : srb_results'[i] # srb_results[i]}) <= 1

\* C16 as stated: detect_levels_batch returns as many results as symbols were
\* requested, one entry for every requested symbol, in sequential and in
\* parallel mode; a failure while processing one symbol gives an error entry
\* for that symbol only.
C16_AsManyResultsAsSymbols ==
    /\ [](SRBDone => /\ Cardinality(SRBResultSymbols) = Len(SRBatchSymbols)
                     /\ SRBEntriesAreOwn)
    /\ [][SRBOneEntryPerStep]_vars

\* C16, amended: detect_levels_batch returns exactly one entry for every
\* distinct requested symbol (a symbol requested twice has one entry), in
\* sequential and in parallel mode; a failure while processing one symbol
\* gives an error entry for that symbol only and every other entry is the
\* result of that symbol's own call.
C16_OneEntryPerDistinctSymbol ==
    /\ [](SRBDone => /\ SRBResultSymbols = Range(SRBatchSymbols)
                     /\ \A i \in 1..SRBatchSize : srb_results[i] # NoResult
                     /\ SRBEntriesAreOwn)
    /\ [][SRBOneEntryPerStep]_vars

C16_Witness ==
    /\ SRBDone
    /\ srb_mode = "parallel"
    /\ Cardinality(Range(SRBatchSymbols)) < Len(SRBatchSymbols)
    /\ \E i \in 1..SRBatchSize :
           /\ SRBatchSymbols[i] = "GOOG"
           /\ srb_results[i] = SRErrorResult("GOOG", "No data available")
    /\ \E i \in 1..SRBatchSize :
           srb_results[i] = SRErrorResult(SRBatchSymbols[i], "KeyError")
    /\ \E i \in 1..SRBatchSize :
           srb_results[i] = SRBOwnResult(i) /\ SRBatchData(SRBatchSymbols[i]).kind = "ok"

-----------------------------------------------------------------------------
(* Claims about the levels endpoints *)

\* C17: on each of the three levels endpoints that take a timeframe, a
\* request whose timeframe is outside the accepted set is answered with HTTP
\* 400.
C17_InvalidTimeframeIs400 ==
    (/\ api_pc = "idle"
     /\ api_count > 0
     /\ api_request.timeframe \notin Range(ValidTimeframes))
        => api_status = HttpBadRequest

-----------------------------------------------------------------------------
(* Claims about DuplicateFilter *)

\* C18: remove_duplicates is idempotent: whatever the input list and the
\* prefer_source setting, applying it to its own output returns that output
\* unchanged.
C18_RemoveDuplicatesIdempotent ==
    df_again => df_out = df_in

-----------------------------------------------------------------------------
(* Claims about the articles of a fetch result *)

\* C19: in the result a finished process() call returns, no two articles
\* have the same id, whichever collectors supplied them and whether or not
\* the window was expanded.
C19_ResultIdsUnique ==
    (nf_pc = "done" /\ nf_result.status = "success") =>
        \A i, j \in 1..Len(nf_result.articles) :
            i # j => nf_result.articles[i].id # nf_result.articles[j].id

-----------------------------------------------------------------------------
(* Claims about the order of the detected levels *)

\* Strongest first, and among levels of equal strength the lower price first.
SRStrengthThenPrice(levels) ==
    \A i \in 1..(Len(levels) - 1) :
        \/ levels[i].strength > levels[i + 1].strength
        \/ /\ levels[i].strength = levels[i + 1].strength
           /\ levels[i].price <= levels[i + 1].price

\* C20: on each side of a detection result the levels are ordered by strength
\* descending, and levels of equal strength by price ascending.
C20_LevelsOrderedStrengthThenPrice ==
    "support_levels" \in DOMAIN sr_result =>
        /\ SRStrengthThenPrice(sr_result.support_levels)
        /\ SRStrengthThenPrice(sr_result.resistance_levels)

\* C25: only successful detection results are served from the result cache:
\* after a process call for a key ended with status error, the next call with
\* that key within the TTL runs detection again, so no cache hit returns an
\* error result.
C25_CacheServesNoErrorResult ==
    sr_hit => ~("status" \in DOMAIN sr_result /\ sr_result.status = "error")

\* C26: the result process returns on a cache miss is not aliased with the
\* stored entry: a field the caller adds to the returned result (api_metadata
\* of the HTTP router) never appears in a result returned by a later cache hit.
C26_HitHasNoCallerField ==
    sr_hit => "api_metadata" \notin DOMAIN sr_result

\* C27: two process calls for one symbol with project_future that differ only
\* in projection_periods share no cache entry: the projection_periods and the
\* projected values of each returned result are those of the call itself.
C27_ProjectionIsOfTheCall ==
    (sr_params.project_future /\ "projection_periods" \in DOMAIN sr_result)
    => /\ sr_result.projection_periods = sr_params.projection_periods
       /\ \A i \in 1..Len(sr_result.predicted_future_levels) :
             sr_result.predicted_future_levels[i].projected_timeframe
                = sr_params.projection_periods

\* The detection results: the dictionaries with the two level lists.
SRHasLevels == "support_levels" \in DOMAIN sr_result

SRSideWithin(levels) ==
    /\ Len(levels) <= sr_params.max_levels
    /\ \A i \in 1..Len(levels) : levels[i].strength >= sr_params.min_strength

\* C21: every support and every resistance level of a detection result has
\* strength at least the call's min_strength, and each side holds at most the
\* call's max_levels levels.
C21_LevelsWithinStrengthAndCount ==
    SRHasLevels =>
        /\ SRSideWithin(sr_result.support_levels)
        /\ SRSideWithin(sr_result.resistance_levels)

\* C21 witness: a result served from the cache, cut to one level per side
\* although two candidates of each side reach min_strength.
C21_Witness ==
    /\ SRHasLevels
    /\ sr_hit
    /\ sr_params.max_levels = 1
    /\ sr_params.min_strength = SRDefaultMinStrength
    /\ Len(sr_result.resistance_levels) = 1
    /\ Len(sr_result.support_levels) = 1
    /\ sr_result.support_levels[1].strength = 80

\* C23: in a successful detection result whose support and resistance lists
\* are both non-empty, nearest_support < current_price < nearest_resistance.
C23_NearestLevelsBracketPrice ==
    (/\ SRHasLevels
     /\ sr_result.support_levels # <<>>
     /\ sr_result.resistance_levels # <<>>)
    => /\ sr_result.nearest_support < sr_result.current_price
       /\ sr_result.current_price < sr_result.nearest_resistance

\* The decay pair of a freshly initialised aggregator.
AggInitialDecay == AdjustForHorizon("1d", 1440, 10080)

\* C28: the decay parameters (half-life, max age) applied to a time-weighted
\* aggregation request are determined by that request's time_horizon alone,
\* whatever the horizons of the requests the aggregator served before.
C28_DecayOfOwnHorizon ==
    (/\ "status" \in DOMAIN agg_result
     /\ agg_result.status = "success"
     /\ agg_params.time_weighted)
    => <<agg_half_life, agg_max_age>>
          = AdjustForHorizon(agg_params.time_horizon, AggInitialDecay[1],
                             AggInitialDecay[2])

-----------------------------------------------------------------------------
(* Claims about StrengthCalculator *)

BpIsBelow(i) == bp_levels[i].price # 0 /\ bp_levels[i].price < bp_current_price
BpIsAbove(i) == bp_levels[i].price > bp_current_price

\* C22: in calculate_breakout_probability a support level strictly below the
\* current price gets a higher direction contribution than a support level
\* above it, and a resistance level strictly above the current price gets a
\* higher one than a resistance level below it.
C22_DirectionFavoursApproachedSide ==
    bp_pc = "done" =>
      \A i, j \in 1..Len(bp_levels) :
        /\ (/\ bp_levels[i].type = "support" /\ bp_levels[j].type = "support"
            /\ BpIsBelow(i) /\ BpIsAbove(j))
           => bp_direction[i] > bp_direction[j]
        /\ (/\ bp_levels[i].type = "resistance" /\ bp_levels[j].type = "resistance"
            /\ BpIsAbove(i) /\ BpIsBelow(j))
           => bp_direction[i] > bp_direction[j]

=========================================================================
